---- MODULE Spec2Model ----
(***************************************************************************)
(* Model of the F1 telemetry coach (src/marco_core.py): the SmartTTSQueue  *)
(* message scheduler, F1Coach.speak, the background TTS worker and the     *)
(* F1Coach ingestion path (update_telemetry, lap lifecycle, analytics).    *)
(*                                                                         *)
(* Units: wall-clock and lap times are integers in milliseconds, distances *)
(* in metres, speeds in km/h, pedal inputs in percent (0..100).            *)
(***************************************************************************)
EXTENDS Integers, Sequences, FiniteSets, TLC

VARIABLES
    TTS_AVAILABLE,   \* module flag set by the optional pyttsx3 import
    now,             \* time.time()
    coach,           \* the F1Coach object's fields
    tts,             \* the SmartTTSQueue object (coach.tts_queue)
    shared_state,    \* the module-level shared_state dict (fields used here)
    worker,          \* position and locals of the _tts_worker thread
    calls,           \* the speak() calls made by the last step, with results
    ingest,          \* position of the ingestion thread inside update_telemetry
    game,            \* the simulation producing the sample stream
    hist,            \* record of the delivered stream, for stating properties
    session,         \* run_coaching_session's thread and the stop/start flags
    probe            \* arguments and result of one call of a pure function

vars == <<TTS_AVAILABLE, now, coach, tts, shared_state, worker, calls, ingest, game, hist,
          session, probe>>

env == <<ingest, game, hist, session, probe>>

\* ------------------------------------------------------------------------
\* Bounds of the model
\* ------------------------------------------------------------------------
StartTime == 1000
MaxTime == 4200
MaxPuts == 5

\* ------------------------------------------------------------------------
\* Program constants
\* ------------------------------------------------------------------------
PRIORITY_CRITICAL == 0
PRIORITY_HIGH == 1
PRIORITY_MEDIUM == 2
PRIORITY_LOW == 3
QUEUE_BACKLOG_LIMIT == 3
MAX_MESSAGE_AGE == 3000
time_cooldown == 800
SPEECH_LOG_KEEP == 50
DEFAULT_VALID_RANGE == 200


Abs(x) == IF x < 0 THEN -x ELSE x

Max2(a, b) == IF a >= b THEN a ELSE b

Min2(a, b) == IF a <= b THEN a ELSE b

\* ------------------------------------------------------------------------
\* SmartTTSQueue
\* ------------------------------------------------------------------------
\* SmartTTSQueue.__init__
SmartTTSQueue_init == [queue |-> {}, current_distance |-> 0, message_counter |-> 0]

\* The world an ingestion-side method reads and writes: the coach, its queue,
\* shared_state, and the trace of speak() calls of the running handler.
World == [coach |-> coach, tts |-> tts, shared_state |-> shared_state, calls |-> <<>>]

\* put with the backlog test on a limit of 4 pending items
put_backlog_of_four(q, message, priority, valid_range) ==
    LET counter == q.message_counter + 1
        rejected == Cardinality(q.queue) >= QUEUE_BACKLOG_LIMIT + 1 /\ priority >= PRIORITY_MEDIUM
        item == [priority |-> priority, counter |-> counter, message |-> message,
                 distance |-> q.current_distance, valid_range |-> valid_range,
                 timestamp |-> now]
    IN  [q |-> [q EXCEPT !.message_counter = counter,
                         !.queue = IF rejected THEN @ ELSE @ \cup {item}],
         ret |-> ~rejected]

\* put with the backlog test written "priority > PRIORITY_MEDIUM"
put_rejects_low_only(q, message, priority, valid_range) ==
    LET counter == q.message_counter + 1
        rejected == Cardinality(q.queue) >= QUEUE_BACKLOG_LIMIT /\ priority > PRIORITY_MEDIUM
        item == [priority |-> priority, counter |-> counter, message |-> message,
                 distance |-> q.current_distance, valid_range |-> valid_range,
                 timestamp |-> now]
    IN  [q |-> [q EXCEPT !.message_counter = counter,
                         !.queue = IF rejected THEN @ ELSE @ \cup {item}],
         ret |-> ~rejected]

\* SmartTTSQueue.put; the result carries the return value in .ret
put(q, message, priority, valid_range) ==
    LET counter == q.message_counter + 1
        rejected == Cardinality(q.queue) >= QUEUE_BACKLOG_LIMIT /\ priority >= PRIORITY_MEDIUM
        item == [priority |-> priority, counter |-> counter, message |-> message,
                 distance |-> q.current_distance, valid_range |-> valid_range,
                 timestamp |-> now]
    IN  [q |-> [q EXCEPT !.message_counter = counter,
                         !.queue = IF rejected THEN @ ELSE @ \cup {item}],
         ret |-> ~rejected]

\* SmartTTSQueue.update_distance
update_distance(q, distance) == [q EXCEPT !.current_distance = distance]

\* SmartTTSQueue.clear
clear(q) == [q EXCEPT !.queue = {}]

\* Ordering of the PriorityQueue entries (priority, counter, data)
EntryBefore(a, b) ==
    \/ a.priority < b.priority
    \/ a.priority = b.priority /\ a.counter < b.counter

\* a plain FIFO queue in place of the PriorityQueue
QueueHead_fifo(items) == CHOOSE a \in items : \A b \in items : a.counter <= b.counter

\* queue.PriorityQueue.get: the smallest entry
QueueHead(items) == CHOOSE a \in items : \A b \in items \ {a} : EntryBefore(a, b)

\* the staleness test without the distance check
IsStale_age_only(data, current_distance, t) == t - data.timestamp > MAX_MESSAGE_AGE

\* The staleness test of SmartTTSQueue.get
IsStale(data, current_distance, t) ==
    LET dist_traveled == Abs(current_distance - data.distance)
        age == t - data.timestamp
    IN  dist_traveled > data.valid_range \/ age > MAX_MESSAGE_AGE

\* ------------------------------------------------------------------------
\* F1Coach.speak
\* ------------------------------------------------------------------------
AppendLog(log, message) ==
    LET appended == Append(log, message)
    IN  IF Len(appended) > SPEECH_LOG_KEEP
        THEN SubSeq(appended, Len(appended) - SPEECH_LOG_KEEP + 1, Len(appended))
        ELSE appended

speak(W, message, force, priority, valid_range) ==
    LET current_time == now
        throttled == ~force /\ current_time - W.coach.last_cue_time < time_cooldown
        use_queue == TTS_AVAILABLE
        p == put(W.tts, message, priority, valid_range)
        spoken == IF use_queue THEN p.ret ELSE TRUE
        call == [message |-> message, force |-> force, priority |-> priority,
                 put |-> ~throttled /\ use_queue,
                 ret |-> ~throttled /\ spoken]
    IN  IF throttled
        THEN [W EXCEPT !.calls = Append(@, call)]
        ELSE [W EXCEPT
                !.tts = IF use_queue THEN p.q ELSE @,
                !.coach.last_cue_time = IF use_queue /\ p.ret THEN current_time ELSE @,
                !.shared_state.speech_log = IF spoken THEN AppendLog(@, message) ELSE @,
                !.calls = Append(@, call)]

\* ------------------------------------------------------------------------
\* F1Coach._tts_worker (background thread)
\* ------------------------------------------------------------------------
\* The worker is idle between iterations, inside SmartTTSQueue.get while it
\* pops entries, and rendering while the synthesis call runs.
\* pops counts the queue.get calls of the running SmartTTSQueue.get; data is
\* the entry it returned (none: the empty set).
worker_init == [pc |-> "idle", current_distance |-> 0, pops |-> 0, data |-> {}]

\* message = self.tts_queue.get(self.current_lap_distance, timeout=0.1): entry
WorkerCallGet ==
    /\ TTS_AVAILABLE
    /\ worker.pc = "idle"
    /\ worker' = [worker EXCEPT !.pc = "get",
                                !.current_distance = coach.current_lap_distance,
                                !.pops = 0,
                                !.data = {}]
    /\ tts' = update_distance(tts, coach.current_lap_distance)
    /\ calls' = <<>>
    /\ UNCHANGED <<TTS_AVAILABLE, now, coach, shared_state, env>>

\* One iteration of the loop of SmartTTSQueue.get: queue.Empty returns None,
\* a stale entry is dropped and the loop goes on, a fresh one is returned.
get_step(q, w) ==
    IF q.queue = {}
    THEN [q |-> q, w |-> worker_init]
    ELSE LET head == QueueHead(q.queue)
             rest == [q EXCEPT !.queue = @ \ {head}]
         IN  IF IsStale(head, w.current_distance, now)
             THEN [q |-> rest, w |-> [w EXCEPT !.pops = @ + 1]]
             ELSE [q |-> rest,
                   w |-> [w EXCEPT !.pc = "render", !.pops = @ + 1, !.data = {head}]]

WorkerGetStep ==
    /\ worker.pc = "get"
    /\ LET r == get_step(tts, worker)
       IN  /\ tts' = r.q
           /\ worker' = r.w
    /\ calls' = <<>>
    /\ UNCHANGED <<TTS_AVAILABLE, now, coach, shared_state, env>>

\* The synthesis call (_speak_neural / pyttsx3 runAndWait) returns
WorkerRenderDone ==
    /\ worker.pc = "render"
    /\ worker' = worker_init
    /\ calls' = <<>>
    /\ UNCHANGED <<TTS_AVAILABLE, now, coach, tts, shared_state, env>>

\* ------------------------------------------------------------------------
\* Wall clock
\* ------------------------------------------------------------------------
\* time passes between two steps of the threads, by one of the steps of S
AdvanceTimeBy(S) ==
    /\ \E dt \in S :
          /\ now + dt <= MaxTime
          /\ now' = now + dt
    /\ calls' = <<>>
    /\ UNCHANGED <<TTS_AVAILABLE, coach, tts, shared_state, worker, env>>

\* steps as long as the cooldown (0.8 s), and longer than half the age limit
CooldownSteps == {800}

TimeSteps == {1600}

CooldownTime == AdvanceTimeBy(CooldownSteps)

AdvanceTime == AdvanceTimeBy(TimeSteps)

\* ------------------------------------------------------------------------
\* Optional values (Python None): the empty sequence, or <<v>>
\* ------------------------------------------------------------------------
NoneVal == <<>>

Some(v) == <<v>>

IsNone(x) == x = <<>>

Val(x) == x[1]

\* ------------------------------------------------------------------------
\* F1Coach.__init__
\* ------------------------------------------------------------------------
MAX_CORNER_CALLOUTS_PER_LAP == 4
BRAKE_POINT_DIFF_M == 10
ENTRY_SPEED_DIFF_KPH == 8
APEX_SPEED_DIFF_KPH == 6
EXIT_SPEED_DIFF_KPH == 8
THROTTLE_POINT_DIFF_M == 15
CORNER_HISTORY_WINDOW == 12
CONSISTENCY_WINDOW_LAPS == 10
COOLDOWN_SENTINEL == -1000

\* Bins of the distance heatmap (320 in the program, reduced here)
HEATMAP_BIN_COUNT == 4

Bins == 1..HEATMAP_BIN_COUNT

CooldownCategories ==
    {"brake", "brake_warn", "gear", "throttle", "speed", "positive", "invalid",
     "damage", "crash", "corner", "lap_summary"}

\* self.cooldowns[category]['cooldown']
cooldown_distance ==
    [brake |-> 120, brake_warn |-> 260, gear |-> 80, throttle |-> 150,
     speed |-> 200, positive |-> 300, invalid |-> 300, damage |-> 500,
     crash |-> 200, corner |-> 200, lap_summary |-> 500]

\* self.cooldowns[category]['last_dist'] at construction and after a lap change
cooldowns_init == [c \in CooldownCategories |-> COOLDOWN_SENTINEL]

coach_init ==
    [current_lap_distance |-> 0,
     last_lap_distance |-> 0,
     current_speed |-> 0,
     current_gear |-> 0,
     current_throttle |-> 0,
     current_brake |-> 0,
     current_lap_num |-> -1,
     current_lap_time |-> 0,
     current_delta |-> 0,
     lap_is_invalid |-> FALSE,
     lap_was_invalid |-> FALSE,
     last_warnings |-> 0,
     last_corner_warnings |-> 0,
     last_penalties |-> 0,
     last_speed |-> 0,
     crash_cooldown |-> 0,
     last_fl_wing |-> 0,
     last_fr_wing |-> 0,
     last_rear_wing |-> 0,
     last_floor |-> 0,
     current_lap_data |-> <<>>,
     completed_laps |-> <<>>,
     reference |-> NoneVal,
     reference_lap_num |-> NoneVal,
     reference_lap_time |-> NoneVal,
     track_analyzer |-> NoneVal,
     last_sector |-> 0,
     current_sector |-> 0,
     best_sector_times |-> [n \in 1..3 |-> NoneVal],
     reference_sector_times |-> [n \in 1..3 |-> NoneVal],
     pending_sector1_time |-> 0,
     pending_sector2_time |-> 0,
     sector_announced |-> [n \in 1..2 |-> FALSE],
     corner_feedback_given |-> {},
     current_lap_corner_data |-> <<>>,
     corner_tracking_state |-> <<>>,
     corner_callouts_this_lap |-> 0,
     max_corner_callouts_per_lap |-> MAX_CORNER_CALLOUTS_PER_LAP,
     reference_bin_times |-> <<>>,
     current_lap_bin_times |-> [b \in Bins |-> NoneVal],
     current_segment_deltas |-> [b \in Bins |-> NoneVal],
     last_lap_segment_deltas |-> <<>>,
     last_live_bin_index |-> NoneVal,
     valid_lap_times |-> <<>>,
     best_bin_segment_times |-> [b \in Bins |-> NoneVal],
     optimal_lap |-> [sectors_best |-> NoneVal, bins_best |-> NoneVal,
                      gain_vs_pb_sectors |-> NoneVal, gain_vs_pb_bins |-> NoneVal],
     sector_history |-> [n \in 1..3 |-> <<>>],
     corner_history |-> <<>>,
     corner_mastery |-> <<>>,
     reference_corner_metrics |-> <<>>,
     last_lap_corner_metrics |-> <<>>,
     last_time_loss_summary |-> <<>>,
     _last_lap_summary_tts |-> -1,
     cooldowns |-> cooldowns_init,
     last_cue_time |-> 0,
     warned_braking_zones |-> {},
     driver_profile |-> [tags |-> {}, stats |-> NoneVal],
     consistency_metrics |-> [lap_sigma |-> 0],
     skill_scores |-> [braking_precision |-> 5000, throttle_smoothness |-> 5000,
                       corner_exit_quality |-> 5000, consistency |-> 5000,
                       line_adherence |-> 5000]]

\* shared_state after _reset_analytics_shared_state (the fields the coach writes)
shared_state_init ==
    [speech_log |-> <<>>,
     lap_times |-> <<>>,
     fastest_lap |-> NoneVal,
     sector_colors |-> [n \in 1..3 |-> "None"],
     current_lap_num |-> 0,
     current_delta |-> 0]

\* ------------------------------------------------------------------------
\* The game: the sample stream read by run_coaching_session
\* ------------------------------------------------------------------------
\* Number of timed laps the game delivers in full: to the ingestion thread
\* running alone, and to the ingestion thread running against the worker
MaxLaps == 3

RaceLaps == 2

\* Wall-clock time between two samples
TickTime == 1000

ingest_init == [pc |-> "recv", sample |-> NoneVal]

game_init == [lap |-> -1, idx |-> 0, style |-> "out", last_lap_time |-> 0, flag |-> 0]

\* shared_state['session_active'] and shared_state['stop_queue'] at import, with
\* no session running. A stop request in stop_queue is the number of the
\* session that was active when it was accepted; owed says that a request was
\* accepted while the running session's loop had not yet exited.
\* menu and watcher are the positions of the menu thread (main) and of the
\* phone-command watcher thread; start_queue counts the pending start requests.
session_init == [pc |-> "idle", session_active |-> FALSE, stop_queue |-> <<>>,
                 started |-> 0, requests |-> 0, owed |-> FALSE, stopped_by |-> 0,
                 menu |-> "menu", watcher |-> "wait", start_queue |-> 0,
                 choices |-> 0, posts |-> 0]

\* no pure function has been called yet
probe_init == [op |-> "none"]

\* cued: for each cooldown category, the lap distance of the last candidate
\* cue of the lap in progress
hist_init == [raised |-> FALSE, messages |-> 0, closed |-> <<>>, dirty |-> {},
              cued |-> [cat \in CooldownCategories |-> NoneVal]]

\* The state after construction: the fields above, then
\* self.speak(say('intro'), force=True, priority=PRIORITY_HIGH)
Init ==
    /\ TTS_AVAILABLE \in BOOLEAN
    /\ now = StartTime
    /\ worker = worker_init
    /\ ingest = ingest_init
    /\ game = game_init
    /\ hist = hist_init
    /\ session = session_init
    /\ probe = probe_init
    /\ LET W0 == [coach |-> coach_init, tts |-> SmartTTSQueue_init,
                  shared_state |-> shared_state_init, calls |-> <<>>]
           W1 == speak(W0, "intro", TRUE, PRIORITY_HIGH, DEFAULT_VALID_RANGE)
       IN  /\ coach = W1.coach
           /\ tts = W1.tts
           /\ shared_state = W1.shared_state
           /\ calls = W1.calls

\* ------------------------------------------------------------------------
\* Scheduler specification: speak, update_distance and clear called by an
\* arbitrary producer, against the worker and the clock.
\* ------------------------------------------------------------------------
QDistances == {1000, 1050, 1051}

QValidRanges == {50}

Priorities == {PRIORITY_CRITICAL, PRIORITY_HIGH, PRIORITY_MEDIUM, PRIORITY_LOW}

Commit(W) ==
    /\ coach' = W.coach
    /\ tts' = W.tts
    /\ shared_state' = W.shared_state
    /\ calls' = W.calls

\* a producer's call of F1Coach.speak with a priority of P (the forced call
\* sites of the coach all pass PRIORITY_HIGH or PRIORITY_CRITICAL)
SpeakAny(P) ==
    /\ tts.message_counter < MaxPuts
    /\ Len(shared_state.speech_log) < MaxPuts
    /\ \E force \in BOOLEAN, priority \in P, valid_range \in QValidRanges :
          /\ force => priority <= PRIORITY_HIGH
          /\ Commit(speak(World, "cue", force, priority, valid_range))
    /\ UNCHANGED <<TTS_AVAILABLE, now, worker, env>>

QSpeak == SpeakAny(Priorities)

\* update_telemetry on a lap change: self.tts_queue.clear()
QClear ==
    /\ TTS_AVAILABLE
    /\ tts.queue # {}
    /\ tts' = clear(tts)
    /\ calls' = <<>>
    /\ UNCHANGED <<TTS_AVAILABLE, now, coach, shared_state, worker, env>>

NextQueue ==
    \/ QSpeak
    \/ QClear
    \/ WorkerCallGet
    \/ WorkerGetStep
    \/ WorkerRenderDone
    \/ CooldownTime

SpecQueue == Init /\ [][NextQueue]_vars

\* ------------------------------------------------------------------------
\* Staleness specification: cues of two priorities, produced while the car
\* moves along QDistances, against the worker and the clock.
\* ------------------------------------------------------------------------
QCue == SpeakAny({PRIORITY_HIGH, PRIORITY_LOW})

\* update_telemetry: self.current_lap_distance = lap_distance
QDrive ==
    /\ \E d \in QDistances :
          /\ d > coach.current_lap_distance
          /\ coach' = [coach EXCEPT !.current_lap_distance = d]
    /\ calls' = <<>>
    /\ UNCHANGED <<TTS_AVAILABLE, now, tts, shared_state, worker, env>>

\* analyze_and_coach: self.tts_queue.update_distance(self.current_lap_distance)
QUpdateDistance ==
    /\ TTS_AVAILABLE
    /\ tts.current_distance # coach.current_lap_distance
    /\ tts' = update_distance(tts, coach.current_lap_distance)
    /\ calls' = <<>>
    /\ UNCHANGED <<TTS_AVAILABLE, now, coach, shared_state, worker, env>>

NextStale ==
    \/ QCue
    \/ QDrive
    \/ QUpdateDistance
    \/ WorkerCallGet
    \/ WorkerGetStep
    \/ WorkerRenderDone
    \/ AdvanceTime

SpecStale == Init /\ [][NextStale]_vars

\* ========================================================================
\* The coach: telemetry ingestion
\* ========================================================================
\* The driven track: the lap distances at which the game delivers a sample of
\* a timed lap, and those of the out lap (before the start line is crossed
\* the game reports a negative lap distance and lap number 0).
LapPoints == <<0, 50, 150, 170, 200, 250, 320, 400>>

OutPoints == <<-800, -100>>

LapLength == 450

NPoints(lap) == IF lap = 0 THEN Len(OutPoints) ELSE Len(LapPoints)

\* The ways a lap is driven: lap time and the inputs at each point
\* (speed km/h, pedals in percent, steering in percent of lock).
Styles ==
    [steady |-> [lap_time |-> 90500,
                 speed    |-> <<250, 250, 200, 120, 100, 140, 180, 220>>,
                 throttle |-> <<100, 100, 0, 0, 0, 60, 100, 100>>,
                 brake    |-> <<0, 0, 100, 40, 0, 0, 0, 0>>,
                 gear     |-> <<7, 7, 5, 3, 2, 3, 4, 6>>,
                 steer    |-> <<0, 0, 10, 30, 40, 30, 10, 0>>],
     quick  |-> [lap_time |-> 90000,
                 speed    |-> <<250, 250, 210, 135, 115, 155, 195, 230>>,
                 throttle |-> <<100, 100, 0, 0, 0, 60, 100, 100>>,
                 brake    |-> <<0, 0, 100, 40, 0, 0, 0, 0>>,
                 gear     |-> <<7, 7, 5, 3, 2, 3, 4, 6>>,
                 steer    |-> <<0, 0, 10, 30, 40, 30, 10, 0>>],
     slow   |-> [lap_time |-> 92000,
                 speed    |-> <<250, 250, 190, 100, 80, 120, 160, 210>>,
                 throttle |-> <<100, 100, 0, 0, 0, 0, 20, 100>>,
                 brake    |-> <<0, 0, 100, 40, 0, 0, 0, 0>>,
                 gear     |-> <<7, 7, 5, 4, 4, 3, 4, 6>>,
                 steer    |-> <<0, 0, 10, 30, 40, 30, 10, 0>>],
     lazy   |-> [lap_time |-> 95000,
                 speed    |-> <<250, 190, 150, 100, 80, 100, 140, 180>>,
                 throttle |-> <<100, 20, 0, 0, 0, 0, 20, 20>>,
                 brake    |-> <<0, 0, 100, 40, 0, 0, 0, 0>>,
                 gear     |-> <<7, 7, 8, 6, 5, 6, 7, 8>>,
                 steer    |-> <<0, 0, 10, 30, 40, 30, 10, 0>>],
     out    |-> [lap_time |-> 0,
                 speed    |-> <<100, 200>>,
                 throttle |-> <<50, 100>>,
                 brake    |-> <<0, 0>>,
                 gear     |-> <<3, 6>>,
                 steer    |-> <<0, 0>>]]

StyleNames == {"steady", "quick", "slow"}

\* the styles driven against the worker
RaceStyles == {"steady", "slow"}

\* the styles of the cue specification: in a lazy lap against a steady
\* reference the gear, throttle and speed cues are due at most points
CueStyles == {"steady", "lazy"}

\* The points of a lap at which the game may raise the lap-invalid flag (the
\* car leaves the track there) and those at which it may lower it again
RaisePoints(lap) == IF lap = 0 THEN {1} ELSE {3}

ClearPoints(lap) == IF lap = 0 THEN {} ELSE {8}

\* the values the flag may take at point idx, after the value flag
FlagValues(lap, idx, flag) ==
    IF flag = 0
    THEN IF idx \in RaisePoints(lap) THEN {0, 1} ELSE {0}
    ELSE IF idx \in ClearPoints(lap) THEN {0, 1} ELSE {1}

\* The arguments of update_telemetry for point idx of a lap
Sample(lap, idx, style, last_lap_time, lap_invalid, penalties) ==
    LET st == Styles[style]
        d == IF lap = 0 THEN OutPoints[idx] ELSE LapPoints[idx]
        t == IF lap = 0 THEN 1000 * idx ELSE (st.lap_time * d) \div LapLength
    IN  [speed |-> st.speed[idx],
         throttle |-> st.throttle[idx],
         brake |-> st.brake[idx],
         gear |-> st.gear[idx],
         steer |-> st.steer[idx],
         lap_distance |-> d,
         lap_num |-> lap,
         current_lap_time |-> t,
         last_lap_time |-> last_lap_time,
         sector |-> IF lap = 0 \/ idx < 4 THEN 0 ELSE IF idx < 7 THEN 1 ELSE 2,
         sector1_time |-> IF lap > 0 /\ idx >= 4
                          THEN (st.lap_time * 170) \div LapLength ELSE 0,
         sector2_time |-> IF lap > 0 /\ idx >= 7
                          THEN (st.lap_time * 150) \div LapLength ELSE 0,
         lap_invalid |-> lap_invalid,
         total_warnings |-> 0,
         corner_warnings |-> 0,
         penalties |-> penalties]

\* ------------------------------------------------------------------------
\* TrackAnalyzer
\* ------------------------------------------------------------------------
RECURSIVE SumRange(_, _, _)
SumRange(vals, a, b) == IF a > b THEN 0 ELSE vals[a] + SumRange(vals, a + 1, b)

Column(df, name) == [i \in 1..Len(df) |-> df[i][name]]

\* df[col].rolling(window, min_periods=1).mean() at row i, as sum and count
RollSum(vals, window, i) == SumRange(vals, Max2(1, i - window + 1), i)

RollCount(window, i) == Min2(window, i)

\* brake_smooth > pct (percent of full pedal)
BrakeSmoothAbove(df, i, pct) ==
    RollSum(Column(df, "brake"), 5, i) > pct * RollCount(5, i)

BrakeSmoothBelow(df, i, pct) ==
    RollSum(Column(df, "brake"), 5, i) < pct * RollCount(5, i)

SteerSmoothAbove(df, i, pct) ==
    RollSum([k \in 1..Len(df) |-> Abs(df[k].steer)], 7, i) > pct * RollCount(7, i)

\* zone_data[col].idxmin() over rows a..b: the first row with the least value
IdxMin(df, a, b, col) ==
    CHOOSE i \in a..b :
        /\ \A j \in a..b : df[i][col] <= df[j][col]
        /\ \A j \in a..(i - 1) : df[j][col] > df[i][col]

\* the first row of a..b whose column col exceeds pct, as an optional lap
\* distance
FirstDist(df, a, b, col, pct) ==
    IF \E i \in a..b : df[i][col] > pct
    THEN Some(df[CHOOSE i \in a..b : /\ df[i][col] > pct
                                    /\ \A j \in a..(i - 1) : df[j][col] <= pct].lap_distance)
    ELSE NoneVal

ZoneRecord_end_with_buffer(df, a, b, buffer, steering) ==
    LET min_speed_idx == IdxMin(df, a, b, "speed")
        min_gear_idx == IdxMin(df, a, b, "gear")
    IN  [start_dist |-> df[a].lap_distance,
         end_dist |-> df[b].lap_distance + buffer,
         exit_dist |-> df[b].lap_distance + buffer,
         entry_speed |-> df[a].speed,
         min_speed |-> df[min_speed_idx].speed,
         min_speed_dist |-> df[min_speed_idx].lap_distance,
         min_gear |-> df[min_gear_idx].gear,
         brake_start_dist |-> IF steering THEN FirstDist(df, a, b, "brake", 20)
                              ELSE Some(df[a].lap_distance),
         throttle_on_dist |-> FirstDist(df, min_speed_idx,
                                        Min2(min_speed_idx + 119, Len(df)),
                                        "throttle", 50),
         turn_number |-> 0]

\* the corner record built from rows a..b of the reference
ZoneRecord(df, a, b, buffer, steering) ==
    LET min_speed_idx == IdxMin(df, a, b, "speed")
        min_gear_idx == IdxMin(df, a, b, "gear")
    IN  [start_dist |-> df[a].lap_distance,
         end_dist |-> df[b].lap_distance,
         exit_dist |-> df[b].lap_distance + buffer,
         entry_speed |-> df[a].speed,
         min_speed |-> df[min_speed_idx].speed,
         min_speed_dist |-> df[min_speed_idx].lap_distance,
         min_gear |-> df[min_gear_idx].gear,
         brake_start_dist |-> IF steering THEN FirstDist(df, a, b, "brake", 20)
                              ELSE Some(df[a].lap_distance),
         throttle_on_dist |-> FirstDist(df, min_speed_idx,
                                        Min2(min_speed_idx + 119, Len(df)),
                                        "throttle", 50),
         turn_number |-> 0]

\* the loop over df.iterrows() that collects the braking zones
RECURSIVE ScanBraking(_, _, _, _, _)
ScanBraking(df, i, in_braking, zone_start, zones) ==
    IF i > Len(df) THEN zones
    ELSE IF BrakeSmoothAbove(df, i, 20) /\ ~in_braking
    THEN ScanBraking(df, i + 1, TRUE, i, zones)
    ELSE IF BrakeSmoothBelow(df, i, 10) /\ in_braking
    THEN ScanBraking(df, i + 1, FALSE, zone_start,
                     IF i - zone_start > 3
                     THEN Append(zones, ZoneRecord(df, zone_start, i - 1, 50, FALSE))
                     ELSE zones)
    ELSE ScanBraking(df, i + 1, in_braking, zone_start, zones)

\* finalize_steering_corner(start_idx, end_idx), rows a..b
finalize_steering_corner(df, a, b) ==
    IF b < a \/ b - a + 1 < 6 \/ df[b].lap_distance - df[a].lap_distance < 20
    THEN <<>>
    ELSE <<ZoneRecord(df, a, b, 45, TRUE)>>

RECURSIVE ScanSteering(_, _, _, _, _)
ScanSteering(df, i, in_corner, corner_start, found) ==
    IF i > Len(df)
    THEN IF in_corner THEN found \o finalize_steering_corner(df, corner_start, Len(df))
         ELSE found
    ELSE IF SteerSmoothAbove(df, i, 12) /\ ~in_corner
    THEN ScanSteering(df, i + 1, TRUE, i, found)
    ELSE IF ~SteerSmoothAbove(df, i, 12) /\ in_corner
    THEN ScanSteering(df, i + 1, FALSE, 0,
                      found \o finalize_steering_corner(df, corner_start, i - 1))
    ELSE ScanSteering(df, i + 1, in_corner, corner_start, found)

\* TrackAnalyzer._build_fallback_corners
RECURSIVE _build_fallback_corners(_, _, _, _, _)
_build_fallback_corners(df, i, in_zone, start_idx, fallback) ==
    IF i > Len(df) THEN fallback
    ELSE IF BrakeSmoothAbove(df, i, 25) /\ ~in_zone
    THEN _build_fallback_corners(df, i + 1, TRUE, i, fallback)
    ELSE IF in_zone /\ BrakeSmoothBelow(df, i, 10)
    THEN _build_fallback_corners(df, i + 1, FALSE, start_idx,
             IF i - start_idx >= 5
                /\ df[i - 1].lap_distance - df[start_idx].lap_distance >= 20
             THEN Append(fallback, ZoneRecord(df, start_idx, i - 1, 45, FALSE))
             ELSE fallback)
    ELSE _build_fallback_corners(df, i + 1, in_zone, start_idx, fallback)

ByStartDist(a, b) == a.start_dist < b.start_dist

SeqRange(sq) == {sq[i] : i \in 1..Len(sq)}

\* a steering corner that overlaps a braking zone is the same corner
Overlaps(corner, zone) ==
    \/ /\ corner.start_dist <= zone.end_dist + 45
       /\ corner.end_dist >= zone.start_dist - 45
    \/ Abs(corner.min_speed_dist - zone.min_speed_dist) < 80

\* for idx, zone in enumerate(self.corners, start=1): zone['turn_number'] = idx
Numbered(corners) == [i \in 1..Len(corners) |-> [corners[i] EXCEPT !.turn_number = i]]

\* the steering corners that overlap no braking zone (lines 620-633)
ExtraCorners(zones, steering_corners) ==
    LET NoOverlap(c) == \A z \in SeqRange(zones) : ~Overlaps(c, z)
    IN  SelectSeq(steering_corners, NoOverlap)

\* lines 638-641: the fallback corners replace a list of fewer than 3 corners
\* when there are more of them
ChooseCorners(merged, fallback_corners) ==
    IF Len(merged) < 3 /\ Len(fallback_corners) > Len(merged)
    THEN fallback_corners ELSE merged

\* the turn number that the numbering of corners gives to the zone z,
\* 0 if z is not one of the corners
NumberOf(chosen, z) ==
    IF \E i \in 1..Len(chosen) : chosen[i] = z
    THEN CHOOSE i \in 1..Len(chosen) : chosen[i] = z
    ELSE 0

\* the analyzer over the braking zones and the chosen corners. The braking
\* zones are the objects also listed in corners, so they carry the turn
\* numbers given there.
AnalyzeZones(df, zones, chosen) ==
    [reference |-> df,
     braking_zones |-> [i \in 1..Len(zones) |->
                           [zones[i] EXCEPT !.turn_number = NumberOf(chosen, zones[i])]],
     corners |-> Numbered(chosen),
     track_length |-> df[Len(df)].lap_distance]

\* the analyzer that lists the steering corners after the braking zones
\* without sorting the list
TrackAnalyzer_unsorted(reference_df) ==
    LET zones == SortSeq(ScanBraking(reference_df, 1, FALSE, 0, <<>>), ByStartDist)
    IN  AnalyzeZones(reference_df, zones,
            ChooseCorners(
                zones \o ExtraCorners(zones, ScanSteering(reference_df, 1, FALSE,
                                                          0, <<>>)),
                SortSeq(_build_fallback_corners(reference_df, 1, FALSE, 0, <<>>),
                        ByStartDist)))

\* TrackAnalyzer.__init__ and _analyze
TrackAnalyzer(reference_df) ==
    LET zones == SortSeq(ScanBraking(reference_df, 1, FALSE, 0, <<>>), ByStartDist)
    IN  AnalyzeZones(reference_df, zones,
            ChooseCorners(
                SortSeq(zones \o ExtraCorners(zones, ScanSteering(reference_df, 1, FALSE,
                                                                  0, <<>>)),
                        ByStartDist),
                SortSeq(_build_fallback_corners(reference_df, 1, FALSE, 0, <<>>),
                        ByStartDist)))

\* TrackAnalyzer.get_next_braking_zone, as an optional zone
get_next_braking_zone(ta, current_distance) ==
    LET zs == ta.braking_zones
        Ahead(i) == zs[i].start_dist > current_distance
    IN  IF \E i \in 1..Len(zs) : Ahead(i)
        THEN Some(zs[CHOOSE i \in 1..Len(zs) : Ahead(i) /\ \A j \in 1..(i - 1) : ~Ahead(j)])
        ELSE IF Len(zs) > 0 THEN Some(zs[1]) ELSE NoneVal

\* TrackAnalyzer.get_reference_at_distance: the nearest row, the first on a tie
get_reference_at_distance(ta, lap_distance) ==
    LET df == ta.reference
        Gap(i) == Abs(df[i].lap_distance - lap_distance)
    IN  df[CHOOSE i \in 1..Len(df) :
              /\ \A j \in 1..Len(df) : Gap(i) <= Gap(j)
              /\ \A j \in 1..(i - 1) : Gap(j) > Gap(i)]

\* ------------------------------------------------------------------------
\* Distance cooldowns
\* ------------------------------------------------------------------------
_check_cooldown_half_distance(W, category) ==
    2 * Abs(W.coach.current_lap_distance - W.coach.cooldowns[category])
        >= cooldown_distance[category]

_check_cooldown(W, category) ==
    Abs(W.coach.current_lap_distance - W.coach.cooldowns[category])
        >= cooldown_distance[category]

_set_cooldown(W, category) ==
    [W EXCEPT !.coach.cooldowns[category] = W.coach.current_lap_distance]

\* ------------------------------------------------------------------------
\* Lap validity, penalties, crash detection
\* ------------------------------------------------------------------------
_check_lap_validity(W, is_invalid) ==
    LET Wa == [W EXCEPT !.coach.lap_is_invalid = TRUE, !.coach.lap_was_invalid = TRUE]
        W1 == IF is_invalid /\ ~W.coach.lap_was_invalid
              THEN IF _check_cooldown(Wa, "invalid")
                   THEN _set_cooldown(speak(Wa, "lap_invalidated", TRUE, PRIORITY_HIGH,
                                            DEFAULT_VALID_RANGE), "invalid")
                   ELSE Wa
              ELSE W
    IN  [W1 EXCEPT !.coach.lap_is_invalid = is_invalid]

\* _check_penalties, lines 1941-1942: a new time penalty
PenaltyTime(W, penalties) ==
    IF penalties > W.coach.last_penalties
    THEN speak(W, "penalty_time", TRUE, PRIORITY_HIGH, DEFAULT_VALID_RANGE)
    ELSE W

\* the detector that remembers the highest counters it has seen
_check_penalties_keeps_highest(W, total_warnings, corner_warnings, penalties) ==
    [PenaltyTime(IF corner_warnings > W.coach.last_corner_warnings
                 THEN speak(W, "penalty_corner_cutting", FALSE, PRIORITY_MEDIUM,
                            DEFAULT_VALID_RANGE)
                 ELSE IF total_warnings > W.coach.last_warnings
                 THEN speak(W, "penalty_warning", FALSE, PRIORITY_MEDIUM,
                            DEFAULT_VALID_RANGE)
                 ELSE W,
                 penalties)
        EXCEPT !.coach.last_warnings = Max2(@, total_warnings),
               !.coach.last_corner_warnings = Max2(@, corner_warnings),
               !.coach.last_penalties = Max2(@, penalties)]

_check_penalties(W, total_warnings, corner_warnings, penalties) ==
    [PenaltyTime(IF corner_warnings > W.coach.last_corner_warnings
                 THEN speak(W, "penalty_corner_cutting", FALSE, PRIORITY_MEDIUM,
                            DEFAULT_VALID_RANGE)
                 ELSE IF total_warnings > W.coach.last_warnings
                 THEN speak(W, "penalty_warning", FALSE, PRIORITY_MEDIUM,
                            DEFAULT_VALID_RANGE)
                 ELSE W,
                 penalties)
        EXCEPT !.coach.last_warnings = total_warnings,
               !.coach.last_corner_warnings = corner_warnings,
               !.coach.last_penalties = penalties]

\* _check_damage, lines 1912-1926: the first test that fires, its message and
\* the cooldown
DamageBranch(W, max_front, last_max_front, rear_wing, floor) ==
    IF max_front > last_max_front + 10
    THEN _set_cooldown(
             IF max_front > 50
             THEN speak(W, "damage_front_wing_heavy", TRUE, PRIORITY_HIGH,
                        DEFAULT_VALID_RANGE)
             ELSE IF max_front > 20
             THEN speak(W, "damage_front_wing_light", FALSE, PRIORITY_MEDIUM,
                        DEFAULT_VALID_RANGE)
             ELSE W,
             "damage")
    ELSE IF rear_wing > W.coach.last_rear_wing + 10
    THEN _set_cooldown(speak(W, "damage_rear_wing", FALSE, PRIORITY_HIGH,
                             DEFAULT_VALID_RANGE), "damage")
    ELSE IF floor > W.coach.last_floor + 15
    THEN _set_cooldown(speak(W, "damage_floor", FALSE, PRIORITY_MEDIUM,
                             DEFAULT_VALID_RANGE), "damage")
    ELSE W

\* the check that stores the wear also when the cooldown skips it
_check_damage_stores_when_skipped(W, fl_wing, fr_wing, rear_wing, floor) ==
    [(IF ~_check_cooldown(W, "damage") THEN W
      ELSE DamageBranch(W, Max2(fl_wing, fr_wing),
                        Max2(W.coach.last_fl_wing, W.coach.last_fr_wing), rear_wing, floor))
        EXCEPT !.coach.last_fl_wing = fl_wing,
               !.coach.last_fr_wing = fr_wing,
               !.coach.last_rear_wing = rear_wing,
               !.coach.last_floor = floor]

_check_damage(W, fl_wing, fr_wing, rear_wing, floor) ==
    IF ~_check_cooldown(W, "damage") THEN W
    ELSE [DamageBranch(W, Max2(fl_wing, fr_wing),
                       Max2(W.coach.last_fl_wing, W.coach.last_fr_wing), rear_wing, floor)
            EXCEPT !.coach.last_fl_wing = fl_wing,
                   !.coach.last_fr_wing = fr_wing,
                   !.coach.last_rear_wing = rear_wing,
                   !.coach.last_floor = floor]

\* F1Coach.update_damage
update_damage(W, fl_wing, fr_wing, rear_wing, floor) ==
    _check_damage(W, fl_wing, fr_wing, rear_wing, floor)

\* the detector without the countdown of ticks
_check_crash_without_countdown(W) ==
    LET speed_drop == W.coach.last_speed - W.coach.current_speed
    IN  IF ~_check_cooldown(W, "crash")
        THEN W
        ELSE IF speed_drop > 80 /\ W.coach.current_brake < 30
        THEN [_set_cooldown(speak(W, "crash_heavy", TRUE, PRIORITY_CRITICAL,
                                  DEFAULT_VALID_RANGE), "crash")
                EXCEPT !.coach.crash_cooldown = 60]
        ELSE IF speed_drop > 40 /\ W.coach.current_brake < 30
        THEN [_set_cooldown(speak(W, "crash_light", FALSE, PRIORITY_HIGH,
                                  DEFAULT_VALID_RANGE), "crash")
                EXCEPT !.coach.crash_cooldown = 30]
        ELSE W

_check_crash(W) ==
    LET speed_drop == W.coach.last_speed - W.coach.current_speed
    IN  IF W.coach.crash_cooldown > 0
        THEN [W EXCEPT !.coach.crash_cooldown = @ - 1]
        ELSE IF ~_check_cooldown(W, "crash")
        THEN W
        ELSE IF speed_drop > 80 /\ W.coach.current_brake < 30
        THEN [_set_cooldown(speak(W, "crash_heavy", TRUE, PRIORITY_CRITICAL,
                                  DEFAULT_VALID_RANGE), "crash")
                EXCEPT !.coach.crash_cooldown = 60]
        ELSE IF speed_drop > 40 /\ W.coach.current_brake < 30
        THEN [_set_cooldown(speak(W, "crash_light", FALSE, PRIORITY_HIGH,
                                  DEFAULT_VALID_RANGE), "crash")
                EXCEPT !.coach.crash_cooldown = 30]
        ELSE W

\* ------------------------------------------------------------------------
\* Sector announcements
\* ------------------------------------------------------------------------
\* the colour with the reference looked at before the best time
SectorColour_reference_first(W, sector_num, sector_time) ==
    LET best == W.coach.best_sector_times[sector_num]
        ref == W.coach.reference_sector_times[sector_num]
    IN  IF ~IsNone(ref) /\ sector_time < Val(ref) THEN "green"
        ELSE IF IsNone(best) \/ sector_time < Val(best) THEN "purple"
        ELSE IF ~IsNone(ref) THEN "yellow"
        ELSE "None"

\* the colour of a sector time against the best and the reference sector
SectorColour(W, sector_num, sector_time) ==
    LET best == W.coach.best_sector_times[sector_num]
        ref == W.coach.reference_sector_times[sector_num]
    IN  IF IsNone(best) \/ sector_time < Val(best) THEN "purple"
        ELSE IF ~IsNone(ref) /\ sector_time < Val(ref) THEN "green"
        ELSE IF ~IsNone(ref) THEN "yellow"
        ELSE "None"

\* the best sector time is updated and the sector time announced
RecordSector(W, sector_num, sector_time, sector_color) ==
    [speak(IF sector_color = "purple"
           THEN [W EXCEPT !.coach.best_sector_times[sector_num] = Some(sector_time)]
           ELSE W,
           IF sector_color = "purple" THEN "sector_purple"
           ELSE IF sector_color = "green" THEN "sector_green"
           ELSE IF sector_color = "yellow" THEN "sector_yellow"
           ELSE "sector_time",
           TRUE, PRIORITY_HIGH, DEFAULT_VALID_RANGE)
        EXCEPT !.shared_state.sector_colors[sector_num] = sector_color]

\* the delta to the reference is announced when it exceeds 0.1 s
AnnounceDelta(W) ==
    IF ~IsNone(W.coach.track_analyzer) /\ Abs(W.coach.current_delta) > 100
    THEN IF W.coach.current_delta > 0
         THEN speak(W, "delta_plus", FALSE, PRIORITY_MEDIUM, DEFAULT_VALID_RANGE)
         ELSE speak(W, "delta_minus", FALSE, PRIORITY_MEDIUM, DEFAULT_VALID_RANGE)
    ELSE W

_announce_sector(W, sector_num, sector_time) ==
    IF sector_time <= 0 \/ W.coach.lap_is_invalid
    THEN W
    ELSE AnnounceDelta(RecordSector(W, sector_num, sector_time,
                                    SectorColour(W, sector_num, sector_time)))

\* the first split announced without the flag being set
Sector1Done_unlatched(W, sector1_time) ==
    IF ~W.coach.sector_announced[1] /\ sector1_time > 0
    THEN _announce_sector([W EXCEPT !.coach.pending_sector1_time = sector1_time],
                          1, sector1_time)
    ELSE W

\* _check_sector_change, lines 2021-2024: the first split is in
Sector1Done(W, sector1_time) ==
    IF ~W.coach.sector_announced[1] /\ sector1_time > 0
    THEN [_announce_sector([W EXCEPT !.coach.pending_sector1_time = sector1_time],
                           1, sector1_time)
            EXCEPT !.coach.sector_announced[1] = TRUE]
    ELSE W

\* _check_sector_change, lines 2026-2029: the second split is in
Sector2Done(W, sector2_time) ==
    IF W.coach.sector_announced[1] /\ ~W.coach.sector_announced[2] /\ sector2_time > 0
    THEN [_announce_sector([W EXCEPT !.coach.pending_sector2_time = sector2_time],
                           2, sector2_time)
            EXCEPT !.coach.sector_announced[2] = TRUE]
    ELSE W

_check_sector_change(W, sector, sector1_time, sector2_time) ==
    Sector2Done(Sector1Done(IF sector # W.coach.last_sector
                            THEN [W EXCEPT !.coach.last_sector = sector]
                            ELSE W,
                            sector1_time),
                sector2_time)

\* ------------------------------------------------------------------------
\* Interpolation over a lap (times in ms, rounded down)
\* ------------------------------------------------------------------------
\* bisect.bisect_left(distances, d): the first row whose distance is >= d
BisectLeft(df, d) == CHOOSE i \in 1..Len(df) :
    /\ df[i].lap_distance >= d
    /\ \A j \in 1..(i - 1) : df[j].lap_distance < d

\* df.sort_values('lap_distance'): the rows in ascending distance. The default
\* sort kind is not stable, so rows of equal distance come in any order.
sort_values(df) ==
    {[i \in 1..Len(df) |-> df[q[i]]] :
        q \in {r \in [1..Len(df) -> 1..Len(df)] :
                  /\ \A i, j \in 1..Len(df) : i # j => r[i] # r[j]
                  /\ \A i, j \in 1..Len(df) :
                        i < j => df[r[i]].lap_distance <= df[r[j]].lap_distance}}

_value_at_distance_from_right(df, target_distance, column) ==
    LET d == target_distance
        n == Len(df)
        idx == BisectLeft(df, d)
        left_d == df[idx - 1].lap_distance
        right_d == df[idx].lap_distance
        left_v == df[idx - 1][column]
        right_v == df[idx][column]
    IN  IF n = 0 THEN NoneVal
        ELSE IF d <= df[1].lap_distance THEN Some(df[1][column])
        ELSE IF d >= df[n].lap_distance THEN Some(df[n][column])
        ELSE IF right_d <= left_d THEN Some(right_v)
        ELSE Some(right_v + ((d - left_d) * (right_v - left_v)) \div (right_d - left_d))

_value_at_distance(df, target_distance, column) ==
    LET d == target_distance
        n == Len(df)
        idx == BisectLeft(df, d)
        left_d == df[idx - 1].lap_distance
        right_d == df[idx].lap_distance
        left_v == df[idx - 1][column]
        right_v == df[idx][column]
    IN  IF n = 0 THEN NoneVal
        ELSE IF d <= df[1].lap_distance THEN Some(df[1][column])
        ELSE IF d >= df[n].lap_distance THEN Some(df[n][column])
        ELSE IF right_d <= left_d THEN Some(right_v)
        ELSE Some(left_v + ((d - left_d) * (right_v - left_v)) \div (right_d - left_d))

_time_at_distance(df, target_distance) ==
    _value_at_distance(df, target_distance, "current_lap_time")

\* ------------------------------------------------------------------------
\* Per-tick coaching
\* ------------------------------------------------------------------------
calculate_delta(W) ==
    IF IsNone(W.coach.track_analyzer) \/ W.coach.current_lap_distance < 100
    THEN 0
    ELSE W.coach.current_lap_time
           - get_reference_at_distance(Val(W.coach.track_analyzer),
                                       W.coach.current_lap_distance).current_lap_time

\* distance_to_zone < calculate_braking_warning_distance(current_speed, zone),
\* with warning_dist = speed/3.6*0.2 + 10 + (speed - min_speed)/150*20,
\* both sides multiplied by 90
InsideWarningDistance(distance_to_zone, current_speed, zone) ==
    LET speed_diff == current_speed - zone.min_speed
    IN  IF speed_diff <= 0
        THEN distance_to_zone < 0
        ELSE 90 * distance_to_zone < 5 * current_speed + 900 + 12 * speed_diff

\* _check_braking_zones, lines 2282-2304: the cues for the zone ahead
BrakingCue(W, zone) ==
    LET c == W.coach
        raw == zone.start_dist - c.current_lap_distance
        distance_to_zone == IF raw < 0 THEN raw + Val(c.track_analyzer).track_length
                            ELSE raw
    IN  IF /\ 90 < distance_to_zone /\ distance_to_zone < 115
           /\ zone.start_dist \notin c.warned_braking_zones
           /\ _check_cooldown(W, "brake_warn")
           /\ c.current_speed > Max2(zone.min_speed + 75, 170)
        THEN _set_cooldown([speak(W, "brake_warning", FALSE, PRIORITY_MEDIUM, 70)
                               EXCEPT !.coach.warned_braking_zones = @ \cup {zone.start_dist}],
                           "brake_warn")
        ELSE IF /\ 0 < distance_to_zone
                /\ InsideWarningDistance(distance_to_zone, c.current_speed, zone)
                /\ _check_cooldown(W, "brake")
                /\ c.current_throttle > 30 /\ c.current_brake < 20
        THEN _set_cooldown(speak(W, IF zone.min_gear < c.current_gear - 1
                                    THEN "brake_with_gear" ELSE "brake_now",
                                 FALSE, PRIORITY_CRITICAL, 60),
                           "brake")
        ELSE W

_check_braking_zones(W) ==
    LET next_zone == get_next_braking_zone(Val(W.coach.track_analyzer),
                                           W.coach.current_lap_distance)
    IN  IF IsNone(next_zone) THEN W ELSE BrakingCue(W, Val(next_zone))

_check_gear(W) ==
    LET ref == get_reference_at_distance(Val(W.coach.track_analyzer),
                                         W.coach.current_lap_distance)
    IN  IF ~_check_cooldown(W, "gear") THEN W
        ELSE IF W.coach.current_gear > ref.gear + 1
        THEN _set_cooldown(speak(W, "downshift", FALSE, PRIORITY_HIGH, 80), "gear")
        ELSE W

_check_throttle(W) ==
    LET ref == get_reference_at_distance(Val(W.coach.track_analyzer),
                                         W.coach.current_lap_distance)
    IN  IF ~_check_cooldown(W, "throttle") THEN W
        ELSE IF ref.throttle > 80 /\ W.coach.current_throttle < 30 /\ W.coach.current_brake < 10
        THEN _set_cooldown(speak(W, "get_on_power", FALSE, PRIORITY_MEDIUM, 80), "throttle")
        ELSE W

_check_speed(W) ==
    LET ref == get_reference_at_distance(Val(W.coach.track_analyzer),
                                         W.coach.current_lap_distance)
        speed_diff == W.coach.current_speed - ref.speed
    IN  IF ~_check_cooldown(W, "speed") THEN W
        ELSE IF speed_diff < -15 /\ W.coach.current_speed < 200
        THEN _set_cooldown(speak(W, "carry_more_speed", FALSE, PRIORITY_LOW, 120), "speed")
        ELSE IF speed_diff > 10 /\ ref.speed < 200 /\ _check_cooldown(W, "positive")
        THEN _set_cooldown(speak(W, "good_speed", FALSE, PRIORITY_LOW, 80), "positive")
        ELSE W

\* ------------------------------------------------------------------------
\* Corner metrics
\* ------------------------------------------------------------------------
OptDiff(a, b) == IF IsNone(a) \/ IsNone(b) THEN NoneVal ELSE Some(Val(a) - Val(b))

\* the classification that looks at the exit speed before the brake point
_infer_corner_reason_exit_first(metric, reference_metric) ==
    LET ref == Val(reference_metric)
        delta == metric.delta_vs_ref
        brake_diff == OptDiff(metric.brake_point, ref.brake_point)
        exit_diff == OptDiff(metric.exit_speed, ref.exit_speed)
        apex_diff == OptDiff(Some(metric.apex_speed), Some(ref.apex_speed))
        entry_diff == OptDiff(metric.entry_speed, ref.entry_speed)
        throttle_diff == OptDiff(metric.throttle_point, ref.throttle_point)
    IN  IF IsNone(reference_metric) THEN "none"
        ELSE IF ~IsNone(exit_diff) /\ Val(exit_diff) < -EXIT_SPEED_DIFF_KPH
        THEN "focus_exit"
        ELSE IF /\ ~IsNone(brake_diff) /\ Val(brake_diff) > BRAKE_POINT_DIFF_M
                /\ (IsNone(delta) \/ Val(delta) > 0)
        THEN "brake_earlier"
        ELSE IF /\ ~IsNone(apex_diff) /\ Val(apex_diff) < -APEX_SPEED_DIFF_KPH
                /\ ~IsNone(entry_diff) /\ Val(entry_diff) > -2
        THEN "overslow_apex"
        ELSE IF ~IsNone(entry_diff) /\ Val(entry_diff) < -ENTRY_SPEED_DIFF_KPH
        THEN "entry_speed"
        ELSE IF ~IsNone(throttle_diff) /\ Val(throttle_diff) > THROTTLE_POINT_DIFF_M
        THEN "throttle_late"
        ELSE "clean"

_infer_corner_reason(metric, reference_metric) ==
    LET ref == Val(reference_metric)
        delta == metric.delta_vs_ref
        brake_diff == OptDiff(metric.brake_point, ref.brake_point)
        exit_diff == OptDiff(metric.exit_speed, ref.exit_speed)
        apex_diff == OptDiff(Some(metric.apex_speed), Some(ref.apex_speed))
        entry_diff == OptDiff(metric.entry_speed, ref.entry_speed)
        throttle_diff == OptDiff(metric.throttle_point, ref.throttle_point)
    IN  IF IsNone(reference_metric) THEN "none"
        ELSE IF /\ ~IsNone(brake_diff) /\ Val(brake_diff) > BRAKE_POINT_DIFF_M
                /\ (IsNone(delta) \/ Val(delta) > 0)
        THEN "brake_earlier"
        ELSE IF ~IsNone(exit_diff) /\ Val(exit_diff) < -EXIT_SPEED_DIFF_KPH
        THEN "focus_exit"
        ELSE IF /\ ~IsNone(apex_diff) /\ Val(apex_diff) < -APEX_SPEED_DIFF_KPH
                /\ ~IsNone(entry_diff) /\ Val(entry_diff) > -2
        THEN "overslow_apex"
        ELSE IF ~IsNone(entry_diff) /\ Val(entry_diff) < -ENTRY_SPEED_DIFF_KPH
        THEN "entry_speed"
        ELSE IF ~IsNone(throttle_diff) /\ Val(throttle_diff) > THROTTLE_POINT_DIFF_M
        THEN "throttle_late"
        ELSE "clean"

\* the rows of df with lo <= lap_distance <= hi
RowsBetween(df, lo, hi) ==
    LET In(r) == r.lap_distance >= lo /\ r.lap_distance <= hi
    IN  SelectSeq(df, In)

\* the metric dict of one corner (lines 1360-1406), the reason not yet set
MetricRecord(c, work, zone, with_delta, start_d, end_d, start_time, end_time) ==
    LET track_length == Val(c.track_analyzer).track_length
        seg == RowsBetween(work, start_d, end_d)
        apex_row == seg[IdxMin(seg, 1, Len(seg), "speed")]
        Braking(r) == r.brake > 25
        braking_rows == SelectSeq(RowsBetween(work, Max2(0, start_d - 80), end_d), Braking)
        OnPower(r) == r.throttle > 55 /\ r.brake < 20
        throttle_rows == SelectSeq(RowsBetween(work, apex_row.lap_distance,
                                               Min2(track_length, end_d + 60)), OnPower)
    IN  [turn |-> zone.turn_number,
         start_distance |-> start_d,
         apex_distance |-> apex_row.lap_distance,
         end_distance |-> end_d,
         entry_speed |-> _value_at_distance(work, start_d, "speed"),
         apex_speed |-> apex_row.speed,
         exit_speed |-> _value_at_distance(work, end_d, "speed"),
         brake_point |-> IF Len(braking_rows) > 0
                         THEN Some(braking_rows[1].lap_distance) ELSE NoneVal,
         throttle_point |-> IF Len(throttle_rows) > 0
                            THEN Some(throttle_rows[1].lap_distance) ELSE NoneVal,
         corner_time |-> IF Val(end_time) >= Val(start_time)
                         THEN Some(Val(end_time) - Val(start_time)) ELSE NoneVal,
         delta_vs_ref |-> IF with_delta /\ ~IsNone(c.reference)
                          THEN Some((Val(end_time) - Val(start_time))
                                    - (Val(_time_at_distance(c.reference, end_d))
                                       - Val(_time_at_distance(c.reference, start_d))))
                          ELSE NoneVal,
         reason |-> "none"]

\* lines 1408-1411: the reason of the metric against the reference's metric
\* of the same turn
WithReason(c, metric) ==
    [metric EXCEPT !.reason =
        _infer_corner_reason(metric,
                             IF metric.turn \in DOMAIN c.reference_corner_metrics
                             THEN Some(c.reference_corner_metrics[metric.turn])
                             ELSE NoneVal)]

\* the metric of one corner of the current reference over the lap work
CornerMetric(c, work, zone, with_delta) ==
    LET start_d == Max2(0, zone.start_dist - 5)
        end_d == Min2(Val(c.track_analyzer).track_length, zone.exit_dist)
    IN  WithReason(c, MetricRecord(c, work, zone, with_delta, start_d, end_d,
                                   _time_at_distance(work, start_d),
                                   _time_at_distance(work, end_d)))

_compute_corner_metrics_for_lap(c, lap_df, with_delta) ==
    LET ta == Val(c.track_analyzer)
        Measured(zone) ==
            LET start_d == Max2(0, zone.start_dist - 5)
                end_d == Min2(ta.track_length, zone.exit_dist)
            IN  end_d > start_d /\ Len(RowsBetween(lap_df, start_d, end_d)) >= 3
        zones == SelectSeq(ta.corners, Measured)
    IN  IF IsNone(c.track_analyzer) \/ Len(lap_df) = 0
        THEN <<>>
        ELSE [i \in 1..Len(zones) |-> CornerMetric(c, lap_df, zones[i], with_delta)]

\* ------------------------------------------------------------------------
\* Live corner tracking
\* ------------------------------------------------------------------------
corner_data_default ==
    [started |-> FALSE, completed |-> FALSE,
     entry_speed |-> NoneVal, entry_time |-> NoneVal, brake_dist |-> NoneVal,
     min_speed |-> NoneVal, min_speed_dist |-> NoneVal, throttle_dist |-> NoneVal,
     exit_speed |-> NoneVal, exit_time |-> NoneVal]

\* the callout for a corner finished delta ms off the reference's time in it
CalloutFor(c, turn, live_corner, delta) ==
    LET ref == c.reference_corner_metrics[turn]
        tags == c.driver_profile.tags
        brake_diff == OptDiff(live_corner.brake_dist, ref.brake_point)
        entry_diff == OptDiff(live_corner.entry_speed, ref.entry_speed)
        apex_diff == OptDiff(live_corner.min_speed, Some(ref.apex_speed))
        exit_diff == OptDiff(live_corner.exit_speed, ref.exit_speed)
    IN  IF /\ ~IsNone(brake_diff) /\ Val(brake_diff) > BRAKE_POINT_DIFF_M
           /\ (IsNone(delta) \/ Val(delta) > 0)
        THEN Some("corner_brake_earlier")
        ELSE IF ~IsNone(exit_diff) /\ Val(exit_diff) < -EXIT_SPEED_DIFF_KPH
        THEN Some("corner_focus_exit")
        ELSE IF "Aggressive Braker" \in tags /\ ~IsNone(apex_diff) /\ Val(apex_diff) < -2
        THEN Some("corner_overslow_apex")
        ELSE IF "Cautious Braker" \in tags /\ ~IsNone(entry_diff) /\ Val(entry_diff) < -3
        THEN Some("corner_entry_speed")
        ELSE IF /\ ~IsNone(apex_diff) /\ Val(apex_diff) < -APEX_SPEED_DIFF_KPH
                /\ ~IsNone(entry_diff) /\ Val(entry_diff) > -2
        THEN Some("corner_overslow_apex")
        ELSE IF ~IsNone(entry_diff) /\ Val(entry_diff) < -ENTRY_SPEED_DIFF_KPH
        THEN Some("corner_entry_speed")
        ELSE IF ~IsNone(delta) /\ Val(delta) < -50
        THEN Some("corner_good")
        ELSE NoneVal

\* _build_corner_callout: the message category, or none
_build_corner_callout(c, turn, live_corner, zone) ==
    LET zone_end == Min2(zone.exit_dist, Val(c.track_analyzer).track_length)
        cur_start == live_corner.entry_time
        cur_end == live_corner.exit_time
    IN  IF turn \notin DOMAIN c.reference_corner_metrics THEN NoneVal
        ELSE CalloutFor(c, turn, live_corner,
                 IF ~IsNone(c.reference) /\ ~IsNone(cur_start) /\ ~IsNone(cur_end)
                 THEN Some((Val(cur_end) - Val(cur_start))
                           - (Val(_time_at_distance(c.reference, zone_end))
                              - Val(_time_at_distance(c.reference, zone.start_dist))))
                 ELSE NoneVal)

\* end_d of the loop of _check_corners
CornerEnd(c, zone) == Min2(zone.exit_dist, Val(c.track_analyzer).track_length)

\* lines 2363-2366: the car enters the corner
CornerEnter(c, zone, cd) ==
    IF ~cd.started /\ c.current_lap_distance >= Max2(0, zone.start_dist - 5)
    THEN [cd EXCEPT !.started = TRUE,
                    !.entry_speed = Some(c.current_speed),
                    !.entry_time = Some(c.current_lap_time)]
    ELSE cd

\* lines 2371-2377: the first braking point
CornerBrake(c, zone, cd) ==
    IF /\ IsNone(cd.brake_dist)
       /\ c.current_lap_distance >= Max2(0, zone.start_dist - 80)
       /\ c.current_lap_distance <= CornerEnd(c, zone)
       /\ c.current_brake > 25
    THEN [cd EXCEPT !.brake_dist = Some(c.current_lap_distance)]
    ELSE cd

\* lines 2379-2382: the least speed inside the corner
CornerApex(c, zone, cd) ==
    IF /\ zone.start_dist <= c.current_lap_distance
       /\ c.current_lap_distance <= CornerEnd(c, zone)
       /\ (IsNone(cd.min_speed) \/ c.current_speed < Val(cd.min_speed))
    THEN [cd EXCEPT !.min_speed = Some(c.current_speed),
                    !.min_speed_dist = Some(c.current_lap_distance)]
    ELSE cd

\* lines 2384-2391: the first throttle point after the apex
CornerThrottle(c, cd) ==
    IF /\ ~IsNone(cd.min_speed_dist) /\ IsNone(cd.throttle_dist)
       /\ c.current_lap_distance > Val(cd.min_speed_dist)
       /\ c.current_throttle > 55 /\ c.current_brake < 20
    THEN [cd EXCEPT !.throttle_dist = Some(c.current_lap_distance)]
    ELSE cd

\* the corner data of a turn is kept in current_lap_corner_data
StoreCorner(W, turn, cd) ==
    [W EXCEPT !.coach.current_lap_corner_data =
        (turn :> cd) @@ W.coach.current_lap_corner_data]

\* the callout without the limit on the callouts of a lap
CornerCallout_uncapped(W, feedback) ==
    IF ~_check_cooldown(W, "corner") THEN W
    ELSE IF IsNone(feedback) THEN W
    ELSE _set_cooldown(
             [speak(W, Val(feedback), FALSE, PRIORITY_MEDIUM, 160)
                 EXCEPT !.coach.corner_callouts_this_lap = @ + 1],
             "corner")

\* lines 2402-2411: the callout of a completed corner
CornerCallout(W, feedback) ==
    IF W.coach.corner_callouts_this_lap >= W.coach.max_corner_callouts_per_lap
    THEN W
    ELSE IF ~_check_cooldown(W, "corner") THEN W
    ELSE IF IsNone(feedback) THEN W
    ELSE _set_cooldown(
             [speak(W, Val(feedback), FALSE, PRIORITY_MEDIUM, 160)
                 EXCEPT !.coach.corner_callouts_this_lap = @ + 1],
             "corner")

\* lines 2393-2400: the car has left the corner
CornerCompleted(W, zone, cd) ==
    IF zone.turn_number \in W.coach.corner_feedback_given
    THEN StoreCorner(W, zone.turn_number, cd)
    ELSE CornerCallout(
             [StoreCorner(W, zone.turn_number, cd)
                 EXCEPT !.coach.corner_feedback_given = @ \cup {zone.turn_number}],
             _build_corner_callout(W.coach, zone.turn_number, cd, zone))

\* lines 2368-2393: a corner that is started and not completed is tracked
CornerTrack(W, zone, cd) ==
    IF ~cd.started \/ cd.completed THEN StoreCorner(W, zone.turn_number, cd)
    ELSE IF W.coach.current_lap_distance <= CornerEnd(W.coach, zone)
    THEN StoreCorner(W, zone.turn_number,
                     CornerThrottle(W.coach,
                         CornerApex(W.coach, zone, CornerBrake(W.coach, zone, cd))))
    ELSE CornerCompleted(W, zone,
             [CornerThrottle(W.coach,
                  CornerApex(W.coach, zone, CornerBrake(W.coach, zone, cd)))
                 EXCEPT !.completed = TRUE,
                        !.exit_speed = Some(W.coach.current_speed),
                        !.exit_time = Some(W.coach.current_lap_time)])

\* the body of the loop of _check_corners for one corner
CornerStep(W, zone) ==
    CornerTrack(W, zone,
        CornerEnter(W.coach, zone,
            IF zone.turn_number \in DOMAIN W.coach.current_lap_corner_data
            THEN W.coach.current_lap_corner_data[zone.turn_number]
            ELSE corner_data_default))

RECURSIVE CornersLoop(_, _, _)
CornersLoop(W, zones, i) ==
    IF i > Len(zones) THEN W ELSE CornersLoop(CornerStep(W, zones[i]), zones, i + 1)

_check_corners(W) ==
    IF IsNone(W.coach.track_analyzer) \/ W.coach.current_lap_time <= 0
    THEN W
    ELSE CornersLoop(W, Val(W.coach.track_analyzer).corners, 1)

analyze_and_coach_delta_without_reference(W) ==
    IF W.coach.current_lap_distance < 50 THEN W
    ELSE IF IsNone(W.coach.track_analyzer)
    THEN [W EXCEPT !.coach.current_delta = W.coach.current_lap_time]
    ELSE LET W1 == [W EXCEPT !.coach.current_delta = calculate_delta(W),
                             !.tts = IF TTS_AVAILABLE
                                     THEN update_distance(@, W.coach.current_lap_distance)
                                     ELSE @]
         IN  _check_corners(_check_speed(_check_throttle(_check_gear(
                 _check_braking_zones(W1)))))

analyze_and_coach(W) ==
    IF IsNone(W.coach.track_analyzer) \/ W.coach.current_lap_distance < 50
    THEN W
    ELSE LET W1 == [W EXCEPT !.coach.current_delta = calculate_delta(W),
                             !.tts = IF TTS_AVAILABLE
                                     THEN update_distance(@, W.coach.current_lap_distance)
                                     ELSE @]
         IN  _check_corners(_check_speed(_check_throttle(_check_gear(
                 _check_braking_zones(W1)))))

\* ------------------------------------------------------------------------
\* Distance bins. Bin b of the model is index b - 1 of the program's lists.
\* ------------------------------------------------------------------------
\* rows of work without the later duplicates of a distance (keep='first')
drop_duplicates(work) ==
    LET First(i) == \A j \in 1..(i - 1) : work[j].lap_distance # work[i].lap_distance
        keep == {i \in 1..Len(work) : First(i)}
        RECURSIVE Take(_)
        Take(i) == IF i > Len(work) THEN <<>>
                   ELSE IF i \in keep THEN <<work[i]>> \o Take(i + 1) ELSE Take(i + 1)
    IN  Take(1)

\* the cumulative time at bin b: target = track_length * (b - 1) / (BINS - 1),
\* compared and interpolated with both sides multiplied by BINS - 1
BinTime(rows, track_length, b) ==
    LET k == Max2(1, HEATMAP_BIN_COUNT - 1)
        target_k == track_length * (b - 1)
        n == Len(rows)
        idx == CHOOSE i \in 1..n :
                  /\ rows[i].lap_distance * k >= target_k
                  /\ \A j \in 1..(i - 1) : rows[j].lap_distance * k < target_k
        d0 == rows[idx - 1].lap_distance
        d1 == rows[idx].lap_distance
        t0 == rows[idx - 1].current_lap_time
        t1 == rows[idx].current_lap_time
    IN  IF target_k <= rows[1].lap_distance * k THEN rows[1].current_lap_time
        ELSE IF target_k >= rows[n].lap_distance * k THEN rows[n].current_lap_time
        ELSE IF d1 <= d0 THEN t1
        ELSE t0 + ((target_k - d0 * k) * (t1 - t0)) \div (k * (d1 - d0))

\* _build_bin_profile: the list of bin times (the heatmap points are not kept)
_build_bin_profile(c, lap_df) ==
    LET OnTrack(r) == r.lap_distance >= 0
        work == SelectSeq(lap_df, OnTrack)
        track_length == IF ~IsNone(c.track_analyzer) /\ Val(c.track_analyzer).track_length > 0
                        THEN Val(c.track_analyzer).track_length
                        ELSE work[Len(work)].lap_distance
        dedup == drop_duplicates(work)
    IN  IF Len(lap_df) < 5 \/ Len(work) < 5 THEN <<>>
        ELSE IF track_length <= 0 THEN <<>>
        ELSE [b \in Bins |-> Some(BinTime(dedup, track_length, b))]

\* Python's round(): to the nearest integer, a half to the even one
RoundHalfEven(num, den) ==
    LET q == num \div den
        r == num % den
    IN  IF 2 * r < den THEN q
        ELSE IF 2 * r > den THEN q + 1
        ELSE IF q % 2 = 0 THEN q ELSE q + 1

\* the update that leaves the bins passed over between two ticks empty
_update_live_bin_deltas_without_backfill(W) ==
    LET c == W.coach
        track_length == Val(c.track_analyzer).track_length
        clamped == Max2(0, Min2(track_length, c.current_lap_distance))
        raw == RoundHalfEven(clamped * (HEATMAP_BIN_COUNT - 1), track_length)
        idx == Max2(0, Min2(HEATMAP_BIN_COUNT - 1, raw)) + 1
        prev_idx == Val(c.last_live_bin_index)
        prev_time == c.current_lap_bin_times[prev_idx]
        filled ==
            IF IsNone(c.last_live_bin_index)
            THEN [c.current_lap_bin_times EXCEPT ![idx] = Some(c.current_lap_time)]
            ELSE IF idx >= prev_idx
            THEN [b \in Bins |->
                    IF b = idx THEN Some(c.current_lap_time)
                    ELSE c.current_lap_bin_times[b]]
            ELSE c.current_lap_bin_times
        last == IF IsNone(c.last_live_bin_index) \/ idx >= prev_idx THEN idx ELSE prev_idx
        deltas == [b \in Bins |->
                    IF /\ b <= last /\ ~IsNone(filled[b])
                       /\ b <= Len(c.reference_bin_times)
                       /\ ~IsNone(c.reference_bin_times[b])
                    THEN Some(Val(filled[b]) - Val(c.reference_bin_times[b]))
                    ELSE c.current_segment_deltas[b]]
    IN  IF Len(c.reference_bin_times) = 0 \/ IsNone(c.track_analyzer) THEN W
        ELSE IF c.current_lap_distance < 0 \/ c.current_lap_time <= 0 THEN W
        ELSE IF track_length <= 0 THEN W
        ELSE [W EXCEPT !.coach.current_lap_bin_times = filled,
                       !.coach.last_live_bin_index = Some(last),
                       !.coach.current_segment_deltas = deltas]

_update_live_bin_deltas(W) ==
    LET c == W.coach
        track_length == Val(c.track_analyzer).track_length
        clamped == Max2(0, Min2(track_length, c.current_lap_distance))
        raw == RoundHalfEven(clamped * (HEATMAP_BIN_COUNT - 1), track_length)
        idx == Max2(0, Min2(HEATMAP_BIN_COUNT - 1, raw)) + 1
        prev_idx == Val(c.last_live_bin_index)
        prev_time == c.current_lap_bin_times[prev_idx]
        span == idx - prev_idx
        filled ==
            IF IsNone(c.last_live_bin_index)
            THEN [c.current_lap_bin_times EXCEPT ![idx] = Some(c.current_lap_time)]
            ELSE IF idx >= prev_idx
            THEN [b \in Bins |->
                    IF b = idx THEN Some(c.current_lap_time)
                    ELSE IF ~IsNone(prev_time) /\ b > prev_idx /\ b < idx
                    THEN Some(Val(prev_time)
                              + ((b - prev_idx) * (c.current_lap_time - Val(prev_time)))
                                \div span)
                    ELSE c.current_lap_bin_times[b]]
            ELSE c.current_lap_bin_times
        last == IF IsNone(c.last_live_bin_index) \/ idx >= prev_idx THEN idx ELSE prev_idx
        deltas == [b \in Bins |->
                    IF /\ b <= last /\ ~IsNone(filled[b])
                       /\ b <= Len(c.reference_bin_times)
                       /\ ~IsNone(c.reference_bin_times[b])
                    THEN Some(Val(filled[b]) - Val(c.reference_bin_times[b]))
                    ELSE c.current_segment_deltas[b]]
    IN  IF Len(c.reference_bin_times) = 0 \/ IsNone(c.track_analyzer) THEN W
        ELSE IF c.current_lap_distance < 0 \/ c.current_lap_time <= 0 THEN W
        ELSE IF track_length <= 0 THEN W
        ELSE [W EXCEPT !.coach.current_lap_bin_times = filled,
                       !.coach.last_live_bin_index = Some(last),
                       !.coach.current_segment_deltas = deltas]

\* ------------------------------------------------------------------------
\* Corner mastery
\* ------------------------------------------------------------------------
RECURSIVE SumSeq(_)
SumSeq(sq) == IF Len(sq) = 0 THEN 0 ELSE Head(sq) + SumSeq(Tail(sq))

\* the last n entries of a list: sq[-n:]
LastN(sq, n) == IF Len(sq) > n THEN SubSeq(sq, Len(sq) - n + 1, Len(sq)) ELSE sq

\* the integer square root, by bisection
RECURSIVE ISqrtIn(_, _, _)
ISqrtIn(x, lo, hi) ==
    IF lo >= hi THEN lo
    ELSE LET mid == (lo + hi + 1) \div 2
         IN  IF mid * mid <= x THEN ISqrtIn(x, mid, hi) ELSE ISqrtIn(x, lo, mid - 1)

\* 46340 is the largest root of a 32-bit integer
ISqrt(x) == ISqrtIn(x, 0, Min2(x, 46340))

\* statistics.pstdev of the values (0 for fewer than two), rounded down
_stddev(values) ==
    LET n == Len(values)
        sq == [i \in 1..n |-> values[i] * values[i]]
    IN  IF n < 2 THEN 0
        ELSE ISqrt(n * SumSeq(sq) - SumSeq(values) * SumSeq(values)) \div n

_clamp(value, lo, hi) == Max2(lo, Min2(hi, value))

corner_history_default ==
    [entry |-> <<>>, apex |-> <<>>, exit |-> <<>>, delta |-> <<>>, brake |-> <<>>]

\* the history with the metrics of one lap appended, trimmed to the window
RECURSIVE AppendCornerHistory(_, _, _)
AppendCornerHistory(history, corner_metrics, i) ==
    IF i > Len(corner_metrics) THEN history
    ELSE LET m == corner_metrics[i]
             h == IF m.turn \in DOMAIN history THEN history[m.turn]
                  ELSE corner_history_default
             h1 == [entry |-> LastN(Append(h.entry, m.entry_speed), CORNER_HISTORY_WINDOW),
                    apex |-> LastN(Append(h.apex, Some(m.apex_speed)), CORNER_HISTORY_WINDOW),
                    exit |-> LastN(Append(h.exit, m.exit_speed), CORNER_HISTORY_WINDOW),
                    delta |-> LastN(Append(h.delta, m.delta_vs_ref), CORNER_HISTORY_WINDOW),
                    brake |-> LastN(Append(h.brake, m.brake_point), CORNER_HISTORY_WINDOW)]
         IN  AppendCornerHistory((m.turn :> h1) @@ history, corner_metrics, i + 1)

\* the values of a list of optional values that are not None
Present(sq) ==
    LET NotNone(x) == ~IsNone(x)
        kept == SelectSeq(sq, NotNone)
    IN  [i \in 1..Len(kept) |-> Val(kept[i])]

\* one mastery entry; scores are in hundredths of a point, deltas in ms
\* the pace component without the clamp
pace_score_unclamped(mean_delta) == 10000 - Max2(0, mean_delta) * 26

\* line 1445: the pace component of the mastery score, in hundredths of a
\* point, of a mean delta in milliseconds
pace_score(mean_delta) == _clamp(10000 - Max2(0, mean_delta) * 26, 0, 10000)

\* line 1446: the consistency component
consistency_score(sigma) == _clamp(10000 - sigma * 42, 0, 10000)

MasteryEntry(turn, deltas) ==
    LET n == Len(deltas)
        mean_delta == SumSeq(deltas) \div n
        sigma == _stddev(LastN(deltas, CONSISTENCY_WINDOW_LAPS))
        prev == SumSeq(SubSeq(deltas, n - 5, n - 3)) \div 3
        recent == SumSeq(SubSeq(deltas, n - 2, n)) \div 3
    IN  [turn |-> turn,
         score |-> (65 * pace_score(mean_delta) + 35 * consistency_score(sigma)) \div 100,
         avg_delta |-> mean_delta,
         consistency_sigma |-> sigma,
         trend |-> IF n >= 6 THEN prev - recent ELSE 0]

\* the turns of a dict in ascending order: sorted(d.items())
RECURSIVE SortedTurns(_)
SortedTurns(S) ==
    IF S = {} THEN <<>>
    ELSE LET m == CHOOSE x \in S : \A y \in S : x <= y
         IN  <<m>> \o SortedTurns(S \ {m})

\* lines 1437-1464: the mastery entries of the turns that have a delta
MasteryOf(history) ==
    LET Scored(turn) == Len(Present(history[turn].delta)) > 0
        turns == SelectSeq(SortedTurns(DOMAIN history), Scored)
    IN  [i \in 1..Len(turns) |->
            MasteryEntry(turns[i], Present(history[turns[i]].delta))]

\* the history is kept and the mastery list rebuilt from it
WithCornerHistory(W, history) ==
    [W EXCEPT !.coach.corner_history = history,
              !.coach.corner_mastery = MasteryOf(history)]

_update_corner_mastery(W, corner_metrics) ==
    WithCornerHistory(W, AppendCornerHistory(W.coach.corner_history, corner_metrics, 1))

\* ------------------------------------------------------------------------
\* F1Coach._update_skill_scores. Scores are in hundredths of a point, the
\* throttle jerk in percent of the pedal.
\* ------------------------------------------------------------------------
\* the value of a field of the reference metric of the turn of metric
RefField(c, metric, field) ==
    IF metric.turn \in DOMAIN c.reference_corner_metrics
    THEN c.reference_corner_metrics[metric.turn][field]
    ELSE NoneVal

\* max(0.0, a - b) when both exist
OptLoss(a, b) == IF IsNone(a) \/ IsNone(b) THEN NoneVal ELSE Some(Max2(0, Val(a) - Val(b)))

brake_diffs(c, corner_metrics) ==
    Present([i \in 1..Len(corner_metrics) |->
                OptDiff(corner_metrics[i].brake_point,
                        RefField(c, corner_metrics[i], "brake_point"))])

exit_losses(c, corner_metrics) ==
    Present([i \in 1..Len(corner_metrics) |->
                OptLoss(RefField(c, corner_metrics[i], "exit_speed"),
                        corner_metrics[i].exit_speed)])

throttle_delays(c, corner_metrics) ==
    Present([i \in 1..Len(corner_metrics) |->
                OptLoss(corner_metrics[i].throttle_point,
                        RefField(c, corner_metrics[i], "throttle_point"))])

apex_losses(c, corner_metrics) ==
    Present([i \in 1..Len(corner_metrics) |->
                IF corner_metrics[i].turn \in DOMAIN c.reference_corner_metrics
                THEN OptLoss(Some(RefField(c, corner_metrics[i], "apex_speed")),
                             Some(corner_metrics[i].apex_speed))
                ELSE NoneVal])

\* sum(values) / len(values) if values else default
MeanOr(values, default) ==
    IF Len(values) = 0 THEN default ELSE SumSeq(values) \div Len(values)

AbsSeq(values) == [i \in 1..Len(values) |-> Abs(values[i])]

StatOr(c, name, default) ==
    IF IsNone(c.driver_profile.stats) THEN default ELSE Val(c.driver_profile.stats)[name]

SkillScores(c, corner_metrics) ==
    [braking_precision |->
         _clamp(10000 - MeanOr(AbsSeq(brake_diffs(c, corner_metrics)), 18) * 230
                      - _stddev(brake_diffs(c, corner_metrics)) * 140, 0, 10000),
     throttle_smoothness |->
         _clamp(10000 - StatOr(c, "throttle_jerk", 8) * 650, 0, 10000),
     corner_exit_quality |->
         _clamp(10000 - MeanOr(exit_losses(c, corner_metrics), 10) * 320
                      - MeanOr(throttle_delays(c, corner_metrics), 20) * 120, 0, 10000),
     consistency |->
         _clamp(10000 - c.consistency_metrics.lap_sigma * 14
                      - MeanOr([i \in 1..Len(c.corner_mastery) |->
                                   c.corner_mastery[i].consistency_sigma], 0) * 18,
                0, 10000),
     line_adherence |->
         _clamp(10000 - MeanOr(apex_losses(c, corner_metrics), 8) * 250
                      - StatOr(c, "turn_in_rate", 1) * 600, 0, 10000)]

_update_skill_scores(W, corner_metrics) ==
    [W EXCEPT !.coach.skill_scores = SkillScores(W.coach, corner_metrics)]

\* ------------------------------------------------------------------------
\* Time-loss summary
\* ------------------------------------------------------------------------
\* the (up to three) corners that lost more than 10 ms, the largest loss first
_build_time_loss_summary(corner_metrics) ==
    LET Lost(m) == ~IsNone(m.delta_vs_ref) /\ Val(m.delta_vs_ref) > 10
        Worse(a, b) == Val(a.delta_vs_ref) > Val(b.delta_vs_ref)
        losses == SortSeq(SelectSeq(corner_metrics, Lost), Worse)
    IN  [i \in 1..Min2(3, Len(losses)) |->
            [turn |-> losses[i].turn, delta |-> Val(losses[i].delta_vs_ref),
             reason |-> losses[i].reason]]

_maybe_speak_time_loss_summary(W, lap_num, summary) ==
    IF Len(summary) = 0 THEN W
    ELSE IF lap_num = W.coach._last_lap_summary_tts THEN W
    ELSE IF summary[1].delta < 120 THEN W
    ELSE IF ~_check_cooldown(W, "lap_summary") THEN W
    ELSE [_set_cooldown(speak(W, "lap_time_loss_summary", FALSE, PRIORITY_MEDIUM, 250),
                        "lap_summary")
            EXCEPT !.coach._last_lap_summary_tts = lap_num]

\* ------------------------------------------------------------------------
\* Lap closure
\* ------------------------------------------------------------------------
AppendCapped(sq, v, cap) == LastN(Append(sq, v), cap)

\* the sector-3 time of the lap, when both splits were seen
S3Time(c, lap_time) ==
    IF c.pending_sector1_time > 0 /\ c.pending_sector2_time > 0
       /\ lap_time - c.pending_sector1_time - c.pending_sector2_time > 0
    THEN Some(lap_time - c.pending_sector1_time - c.pending_sector2_time)
    ELSE NoneVal

\* _finish_lap, lines 2046-2071: sector 3 best time and colour
FinishSector3(W, lap_time) ==
    LET s3 == S3Time(W.coach, lap_time)
        best == W.coach.best_sector_times[3]
        ref == W.coach.reference_sector_times[3]
        purple == IsNone(best) \/ Val(s3) < Val(best)
        colour == IF purple THEN "purple"
                  ELSE IF ~IsNone(ref) /\ Val(s3) < Val(ref) THEN "green"
                  ELSE IF ~IsNone(ref) THEN "yellow" ELSE "None"
    IN  IF IsNone(s3) THEN W
        ELSE [W EXCEPT !.coach.best_sector_times[3] = IF purple THEN s3 ELSE @,
                       !.shared_state.sector_colors[3] = IF colour # "None" THEN colour ELSE @]

\* an invalid lap whose time is entered in the valid-lap-time history
FinishInvalid_counts_lap_time(W, lap_num, lap_time) ==
    [W EXCEPT !.shared_state.lap_times =
                  Append(@, [lap_num |-> lap_num, time |-> lap_time,
                             valid |-> FALSE, is_pb |-> FALSE]),
              !.coach.valid_lap_times = AppendCapped(@, lap_time, 100),
              !.coach.last_lap_corner_metrics = <<>>,
              !.coach.last_time_loss_summary = <<>>,
              !.coach.last_lap_segment_deltas = <<>>,
              !.coach.lap_was_invalid = FALSE]

\* _finish_lap, lines 2073-2088: the lap is not used
FinishInvalid(W, lap_num, lap_time) ==
    [W EXCEPT !.shared_state.lap_times =
                  Append(@, [lap_num |-> lap_num, time |-> lap_time,
                             valid |-> FALSE, is_pb |-> FALSE]),
              !.coach.last_lap_corner_metrics = <<>>,
              !.coach.last_time_loss_summary = <<>>,
              !.coach.last_lap_segment_deltas = <<>>,
              !.coach.lap_was_invalid = FALSE]

\* a promotion that leaves the reference sector times as they were
NewReference_keeps_sector_times(c, lap_num, lap_time, lap_df) ==
    [c EXCEPT
       !.reference = lap_df,
       !.reference_lap_num = Some(lap_num),
       !.reference_lap_time = Some(lap_time),
       !.track_analyzer = Some(TrackAnalyzer(lap_df))]

\* lines 2097-2111: the lap is the reference, with a new TrackAnalyzer and
\* the reference sector times taken from the lap
NewReference(c, lap_num, lap_time, lap_df) ==
    [c EXCEPT
       !.reference = lap_df,
       !.reference_lap_num = Some(lap_num),
       !.reference_lap_time = Some(lap_time),
       !.track_analyzer = Some(TrackAnalyzer(lap_df)),
       !.reference_sector_times =
           [n \in 1..3 |->
              IF n = 1 /\ c.pending_sector1_time > 0
              THEN Some(c.pending_sector1_time)
              ELSE IF n = 2 /\ c.pending_sector2_time > 0
              THEN Some(c.pending_sector2_time)
              ELSE IF n = 3 /\ ~IsNone(S3Time(c, lap_time)) THEN S3Time(c, lap_time)
              ELSE c.reference_sector_times[n]]]

\* lines 2122-2126: the bin profile of the reference, when there is one
WithReferenceBins(c) ==
    LET ref_bins == _build_bin_profile(c, c.reference)
    IN  [c EXCEPT !.reference_bin_times = IF Len(ref_bins) > 0 THEN ref_bins ELSE @]

\* {m['turn']: m for m in reference_corner_list}
ByTurn(reference_corner_list) ==
    [t \in {reference_corner_list[i].turn : i \in DOMAIN reference_corner_list} |->
        reference_corner_list[CHOOSE k \in DOMAIN reference_corner_list :
                                  /\ reference_corner_list[k].turn = t
                                  /\ \A j \in DOMAIN reference_corner_list :
                                        reference_corner_list[j].turn = t => j <= k]]

\* lines 2131-2133: the corner metrics of the reference, by turn
WithReferenceCorners(c) ==
    [c EXCEPT !.reference_corner_metrics =
                  ByTurn(_compute_corner_metrics_for_lap(c, c.reference, FALSE))]

\* _finish_lap, lines 2094-2143: the lap becomes the reference
Promote(W, lap_num, lap_time, lap_df) ==
    speak([W EXCEPT
             !.coach = WithReferenceCorners(
                           WithReferenceBins(
                               NewReference(W.coach, lap_num, lap_time, lap_df))),
             !.shared_state.fastest_lap = Some([lap_num |-> lap_num, time |-> lap_time])],
          IF IsNone(W.coach.reference_lap_time) THEN "baseline_set" ELSE "purple_lap",
          TRUE, PRIORITY_HIGH, DEFAULT_VALID_RANGE)

\* _finish_lap, lines 2144-2154: the lap is slower than the reference
NotPromoted(W, lap_time) ==
    LET delta == lap_time - Val(W.coach.reference_lap_time)
    IN  speak(W, IF delta < 500 THEN "lap_close" ELSE IF delta < 2000 THEN "lap_ok"
                 ELSE "lap_slow",
              TRUE, PRIORITY_HIGH, DEFAULT_VALID_RANGE)

\* ------------------------------------------------------------------------
\* The virtual optimal lap
\* ------------------------------------------------------------------------
\* the time of each bin's segment, from the cumulative bin times; a segment
\* without both ends or without a positive time is None
_cumulative_to_segment_times(cumulative_times) ==
    [b \in 1..Len(cumulative_times) |->
        IF /\ b > 1
           /\ ~IsNone(cumulative_times[b - 1]) /\ ~IsNone(cumulative_times[b])
           /\ Val(cumulative_times[b]) - Val(cumulative_times[b - 1]) > 0
        THEN Some(Val(cumulative_times[b]) - Val(cumulative_times[b - 1]))
        ELSE NoneVal]

\* _update_optimal_lap, lines 1645-1654: the best time of each segment
BestSegments(c, lap_bin_times) ==
    LET lap_segments == _cumulative_to_segment_times(lap_bin_times)
    IN  [b \in Bins |->
           IF /\ b > 1 /\ b <= Len(lap_segments)
              /\ ~IsNone(lap_segments[b])
              /\ \/ IsNone(c.best_bin_segment_times[b])
                 \/ Val(lap_segments[b]) < Val(c.best_bin_segment_times[b])
           THEN lap_segments[b]
           ELSE c.best_bin_segment_times[b]]

\* lines 1641-1643: the sum of the best sector times, when all three exist
SectorsBest(c) ==
    IF \A i \in 1..3 : ~IsNone(c.best_sector_times[i])
    THEN Some(Val(c.best_sector_times[1]) + Val(c.best_sector_times[2])
              + Val(c.best_sector_times[3]))
    ELSE NoneVal

\* lines 1656-1659: the sum of the best segment times, when at least
\* int(0.9 * (HEATMAP_BIN_COUNT - 1)) of them exist
BinsBest(best_segments) ==
    IF 10 * Cardinality({b \in Bins : b > 1 /\ ~IsNone(best_segments[b])})
          >= 10 * ((9 * (HEATMAP_BIN_COUNT - 1)) \div 10)
    THEN Some(SumRange([b \in Bins |-> IF IsNone(best_segments[b]) THEN 0
                                       ELSE Val(best_segments[b])],
                       2, HEATMAP_BIN_COUNT))
    ELSE NoneVal

\* lines 1661-1674: the gains against the reference lap time
Gain(c, best) ==
    IF ~IsNone(c.reference_lap_time) /\ ~IsNone(best)
    THEN Some(Val(c.reference_lap_time) - Val(best))
    ELSE NoneVal

OptimalLapOf(c, best_segments) ==
    [sectors_best |-> SectorsBest(c),
     bins_best |-> BinsBest(best_segments),
     gain_vs_pb_sectors |-> Gain(c, SectorsBest(c)),
     gain_vs_pb_bins |-> Gain(c, BinsBest(best_segments))]

_update_optimal_lap(c, lap_bin_times) ==
    [c EXCEPT !.best_bin_segment_times = BestSegments(c, lap_bin_times),
              !.optimal_lap = OptimalLapOf(c, BestSegments(c, lap_bin_times))]

\* lines 2156-2200: the sector history, the lap's bin deltas and its corner
\* metrics are kept
LapStatistics(W, lap_time, lap_bins, corner_metrics, time_loss_summary) ==
    LET c == W.coach
        s3 == S3Time(c, lap_time)
    IN  [W EXCEPT
           !.coach.best_bin_segment_times =
               _update_optimal_lap(c, lap_bins).best_bin_segment_times,
           !.coach.optimal_lap = _update_optimal_lap(c, lap_bins).optimal_lap,
           !.coach.sector_history =
               [n \in 1..3 |->
                  IF n = 1 /\ c.pending_sector1_time > 0
                  THEN AppendCapped(c.sector_history[1], c.pending_sector1_time, 50)
                  ELSE IF n = 2 /\ c.pending_sector2_time > 0
                  THEN AppendCapped(c.sector_history[2], c.pending_sector2_time, 50)
                  ELSE IF n = 3 /\ ~IsNone(s3)
                  THEN AppendCapped(c.sector_history[3], Val(s3), 50)
                  ELSE c.sector_history[n]],
           !.coach.valid_lap_times = AppendCapped(@, lap_time, 100),
           !.coach.last_lap_segment_deltas =
               IF Len(lap_bins) > 0 /\ Len(c.reference_bin_times) > 0
               THEN [b \in Bins |->
                       IF b <= Len(lap_bins) /\ b <= Len(c.reference_bin_times)
                          /\ ~IsNone(lap_bins[b]) /\ ~IsNone(c.reference_bin_times[b])
                       THEN Some(Val(lap_bins[b]) - Val(c.reference_bin_times[b]))
                       ELSE NoneVal]
               ELSE @,
           !.coach.last_lap_corner_metrics = corner_metrics,
           !.coach.last_time_loss_summary = time_loss_summary]

\* the analytics of a lap whose corner metrics are corner_metrics
LapAnalyticsOf(W, lap_num, lap_time, lap_bins, is_pb, corner_metrics, time_loss_summary) ==
    [_update_corner_mastery(
         _maybe_speak_time_loss_summary(
             LapStatistics(W, lap_time, lap_bins, corner_metrics, time_loss_summary),
             lap_num, time_loss_summary),
         corner_metrics)
        EXCEPT !.shared_state.lap_times =
                  Append(@, [lap_num |-> lap_num, time |-> lap_time,
                             valid |-> TRUE, is_pb |-> is_pb])]

\* the analytics with the time-loss summary of the corner metrics
LapAnalyticsWith(W, lap_num, lap_time, lap_bins, is_pb, corner_metrics) ==
    LapAnalyticsOf(W, lap_num, lap_time, lap_bins, is_pb, corner_metrics,
                   _build_time_loss_summary(corner_metrics))

\* _finish_lap, lines 2156-2232: lap statistics, corner metrics, mastery
LapAnalytics(W, lap_num, lap_time, lap_df, is_pb) ==
    LapAnalyticsWith(W, lap_num, lap_time, _build_bin_profile(W.coach, lap_df), is_pb,
                     _compute_corner_metrics_for_lap(W.coach, lap_df, TRUE))

\* _finish_lap, lines 2073-2232: the lap is classified; a valid lap is stored,
\* compared with the reference and analysed
CloseLap(W, lap_num, lap_time) ==
    LET lap_df == W.coach.current_lap_data
        is_pb == IsNone(W.coach.reference) \/ lap_time < Val(W.coach.reference_lap_time)
        stored == [W EXCEPT !.coach.completed_laps =
                      (lap_num :> [time |-> lap_time, data |-> lap_df]) @@ @]
    IN  IF W.coach.lap_is_invalid THEN FinishInvalid(W, lap_num, lap_time)
        ELSE LapAnalytics(IF is_pb THEN Promote(stored, lap_num, lap_time, lap_df)
                          ELSE NotPromoted(stored, lap_time),
                          lap_num, lap_time, lap_df, is_pb)

_finish_lap(W, lap_num, lap_time) ==
    IF Len(W.coach.current_lap_data) = 0 \/ lap_time <= 0 THEN W
    ELSE CloseLap(FinishSector3(speak(W, "lap_time", TRUE, PRIORITY_HIGH,
                                      DEFAULT_VALID_RANGE),
                                lap_time),
                  lap_num, lap_time)

\* ------------------------------------------------------------------------
\* F1Coach.update_telemetry
\* ------------------------------------------------------------------------
\* the reset without the loop over self.cooldowns.values()
LapReset_keeps_cooldowns(W, lap_num) ==
    [W EXCEPT
       !.coach.current_lap_num = lap_num,
       !.coach.current_lap_data = <<>>,
       !.coach.warned_braking_zones = {},
       !.coach.lap_is_invalid = FALSE,
       !.coach.lap_was_invalid = FALSE,
       !.coach.last_sector = 0,
       !.coach.pending_sector1_time = 0,
       !.coach.pending_sector2_time = 0,
       !.coach.sector_announced = [n \in 1..2 |-> FALSE],
       !.coach.corner_feedback_given = {},
       !.coach.current_lap_corner_data = <<>>,
       !.coach.corner_tracking_state = <<>>,
       !.coach.corner_callouts_this_lap = 0,
       !.coach.current_lap_bin_times = [b \in Bins |-> NoneVal],
       !.coach.current_segment_deltas = [b \in Bins |-> NoneVal],
       !.coach.last_live_bin_index = NoneVal,
       !.shared_state.sector_colors = [n \in 1..3 |-> "None"],
       !.tts = IF TTS_AVAILABLE THEN clear(@) ELSE @]

\* lines 2453-2474: the per-lap state is reset for lap lap_num
LapReset(W, lap_num) ==
    [W EXCEPT
       !.coach.current_lap_num = lap_num,
       !.coach.current_lap_data = <<>>,
       !.coach.warned_braking_zones = {},
       !.coach.lap_is_invalid = FALSE,
       !.coach.lap_was_invalid = FALSE,
       !.coach.last_sector = 0,
       !.coach.pending_sector1_time = 0,
       !.coach.pending_sector2_time = 0,
       !.coach.sector_announced = [n \in 1..2 |-> FALSE],
       !.coach.corner_feedback_given = {},
       !.coach.current_lap_corner_data = <<>>,
       !.coach.corner_tracking_state = <<>>,
       !.coach.corner_callouts_this_lap = 0,
       !.coach.current_lap_bin_times = [b \in Bins |-> NoneVal],
       !.coach.current_segment_deltas = [b \in Bins |-> NoneVal],
       !.coach.last_live_bin_index = NoneVal,
       !.shared_state.sector_colors = [n \in 1..3 |-> "None"],
       !.coach.cooldowns = [cat \in CooldownCategories |-> COOLDOWN_SENTINEL],
       !.tts = IF TTS_AVAILABLE THEN clear(@) ELSE @]

\* lines 2449-2474: the lap number changed
LapChangeBody(W, smp) ==
    LapReset(IF W.coach.current_lap_num > 0 /\ smp.last_lap_time > 0
             THEN _finish_lap(W, W.coach.current_lap_num, smp.last_lap_time)
             ELSE W,
             smp.lap_num)

\* lines 2476-2483: the lap-start announcement
LapAnnounce(W, lap_num) ==
    IF lap_num = 0
    THEN speak(W, "formation_lap", TRUE, PRIORITY_HIGH, DEFAULT_VALID_RANGE)
    ELSE IF lap_num >= 1
    THEN speak(W, IF IsNone(W.coach.reference) THEN "lap_start_no_ref"
                  ELSE "lap_start_with_ref",
               TRUE, PRIORITY_HIGH, DEFAULT_VALID_RANGE)
    ELSE W

\* the row appended to current_lap_data
LapRow(smp) ==
    [lap_distance |-> smp.lap_distance,
     current_lap_time |-> smp.current_lap_time,
     speed |-> smp.speed,
     throttle |-> smp.throttle,
     brake |-> smp.brake,
     gear |-> smp.gear,
     steer |-> smp.steer]

RecordSample_records_out_lap(W, smp) ==
    IF smp.lap_num >= 0
    THEN [W EXCEPT !.coach.current_lap_data = Append(@, LapRow(smp))]
    ELSE W

\* lines 2503-2517: the sample is recorded in a lap that counts
RecordSample(W, smp) ==
    IF smp.lap_num > 0
    THEN [W EXCEPT !.coach.current_lap_data = Append(@, LapRow(smp))]
    ELSE W

\* lines 2548-2553: the shared state for the web interface
PublishState(W, smp) ==
    [W EXCEPT !.shared_state.current_lap_num = smp.lap_num,
              !.shared_state.current_delta = W.coach.current_delta]

\* lines 2485-2553: the sample is processed
ProcessSample(W, smp) ==
    PublishState(
        _update_live_bin_deltas(
            analyze_and_coach(
                RecordSample(
                    _check_crash(
                        _check_penalties(
                            _check_lap_validity(
                                _check_sector_change(
                                    [W EXCEPT
                                       !.coach.last_speed = W.coach.current_speed,
                                       !.coach.last_lap_distance = W.coach.current_lap_distance,
                                       !.coach.current_lap_distance = smp.lap_distance,
                                       !.coach.current_speed = smp.speed,
                                       !.coach.current_gear = smp.gear,
                                       !.coach.current_throttle = smp.throttle,
                                       !.coach.current_brake = smp.brake,
                                       !.coach.current_lap_time = smp.current_lap_time,
                                       !.coach.current_sector = smp.sector],
                                    smp.sector, smp.sector1_time, smp.sector2_time),
                                smp.lap_invalid = 1),
                            smp.total_warnings, smp.corner_warnings, smp.penalties)),
                    smp))),
        smp)

\* ------------------------------------------------------------------------
\* The ingestion thread (run_coaching_session) and the game
\* ------------------------------------------------------------------------
\* the point of the stream after the one last delivered
NextPoint ==
    IF game.lap = -1 THEN [lap |-> 0, idx |-> 1]
    ELSE IF game.idx < NPoints(game.lap) THEN [lap |-> game.lap, idx |-> game.idx + 1]
    ELSE [lap |-> game.lap + 1, idx |-> 1]

\* the speak calls of the handler that announced the invalidation of the lap
Invalidations(cs) ==
    Cardinality({i \in 1..Len(cs) : cs[i].message = "lap_invalidated" /\ cs[i].ret})

\* the groups of per-lap state that hold something left by the lap
Dirty ==
    {g \in {"corner", "warned", "validity", "sector", "bins", "cooldown", "queue"} :
        \/ g = "corner" /\ coach.current_lap_corner_data # <<>>
                        /\ coach.corner_feedback_given # {}
                        /\ coach.corner_callouts_this_lap > 0
        \/ g = "warned" /\ coach.warned_braking_zones # {}
        \/ g = "validity" /\ (coach.lap_is_invalid \/ coach.lap_was_invalid)
        \/ g = "sector" /\ coach.pending_sector1_time > 0 /\ coach.pending_sector2_time > 0
                        /\ coach.sector_announced[1] /\ coach.sector_announced[2]
        \/ g = "bins" /\ ~IsNone(coach.last_live_bin_index)
                      /\ (\E b \in Bins : ~IsNone(coach.current_lap_bin_times[b]))
                      /\ (\E b \in Bins : ~IsNone(coach.current_segment_deltas[b]))
        \/ g = "cooldown" /\ coach.cooldowns # cooldowns_init
        \/ g = "queue" /\ tts.queue # {}}

\* the cooldown category of a message, "none" for the messages without one
CategoryOf(message) ==
    IF message = "brake_warning" THEN "brake_warn"
    ELSE IF message \in {"brake_now", "brake_with_gear"} THEN "brake"
    ELSE IF message = "downshift" THEN "gear"
    ELSE IF message = "get_on_power" THEN "throttle"
    ELSE IF message = "carry_more_speed" THEN "speed"
    ELSE IF message = "good_speed" THEN "positive"
    ELSE IF message = "lap_invalidated" THEN "invalid"
    ELSE IF message \in {"crash_heavy", "crash_light"} THEN "crash"
    ELSE IF message = "lap_time_loss_summary" THEN "lap_summary"
    ELSE IF message \in {"corner_brake_earlier", "corner_focus_exit", "corner_overslow_apex",
                         "corner_entry_speed", "corner_good"} THEN "corner"
    ELSE "none"

\* the record of the candidates after the calls cs made at the distance d
CuedAfter(cued, cs, d) ==
    [cat \in CooldownCategories |->
        IF \E i \in 1..Len(cs) : CategoryOf(cs[i].message) = cat THEN Some(d)
        ELSE cued[cat]]

\* a sample of the running lap arrives and update_telemetry processes it
TickUpTo(laps) ==
    /\ ingest.pc = "recv"
    /\ game.lap <= laps
    /\ NextPoint.lap = game.lap
    /\ game.lap = coach.current_lap_num
    /\ \E lap_invalid \in FlagValues(game.lap, NextPoint.idx, game.flag) :
          /\ Commit(ProcessSample(World,
                                   Sample(game.lap, NextPoint.idx, game.style,
                                          game.last_lap_time, lap_invalid, 0)))
          /\ game' = [game EXCEPT !.idx = NextPoint.idx, !.flag = lap_invalid]
          /\ hist' = [hist EXCEPT !.raised = @ \/ lap_invalid = 1,
                                  !.messages = @ + Invalidations(calls'),
                                  !.cued = CuedAfter(@, calls', coach'.current_lap_distance)]
    /\ now' = now + TickTime
    /\ UNCHANGED <<TTS_AVAILABLE, worker, ingest, session, probe>>

\* the first sample of a new lap arrives: update_telemetry closes the lap
\* that ended and resets the per-lap state. The sample reports the time of
\* the lap that ended, or no time (0) when timed is false.
LapChangeReporting(laps, styles, timed) ==
    /\ ingest.pc = "recv"
    /\ game.lap <= laps
    /\ NextPoint.lap # game.lap
    /\ timed \/ game.lap > 0
    /\ \E lap_invalid \in FlagValues(NextPoint.lap, 1, 0), style \in styles :
          LET new_style == IF NextPoint.lap = 0 THEN "out" ELSE style
              smp == Sample(NextPoint.lap, 1, new_style,
                            IF timed THEN Styles[game.style].lap_time ELSE 0,
                            lap_invalid, 0)
              closes == /\ coach.current_lap_num > 0 /\ smp.last_lap_time > 0
                        /\ Len(coach.current_lap_data) > 0
          IN  /\ NextPoint.lap = 0 => style = "steady"
              /\ Commit(LapChangeBody(World, smp))
              /\ ingest' = [pc |-> "lap_start", sample |-> Some(smp)]
              /\ game' = [game EXCEPT !.lap = NextPoint.lap, !.idx = 1,
                                      !.style = new_style,
                                      !.last_lap_time = smp.last_lap_time,
                                      !.flag = lap_invalid]
              /\ hist' = [raised |-> FALSE,
                          messages |-> 0,
                          closed |-> IF closes
                                     THEN Append(hist.closed,
                                                 [lap_num |-> coach.current_lap_num,
                                                  time |-> smp.last_lap_time,
                                                  raised |-> hist.raised,
                                                  messages |-> hist.messages])
                                     ELSE hist.closed,
                          dirty |-> Dirty,
                          cued |-> [cat \in CooldownCategories |-> NoneVal]]
    /\ UNCHANGED <<TTS_AVAILABLE, now, worker, session, probe>>

LapChangeUpTo(laps, styles) == LapChangeReporting(laps, styles, TRUE)

\* update_telemetry goes on: the lap-start announcement, then the sample
LapStart ==
    /\ ingest.pc = "lap_start"
    /\ LET smp == Val(ingest.sample)
       IN  /\ Commit(ProcessSample(LapAnnounce(World, smp.lap_num), smp))
           /\ hist' = [hist EXCEPT !.raised = smp.lap_invalid = 1,
                                   !.messages = Invalidations(calls'),
                                   !.dirty = {},
                                   !.cued = CuedAfter(@, calls', coach'.current_lap_distance)]
    /\ ingest' = ingest_init
    /\ now' = now + TickTime
    /\ UNCHANGED <<TTS_AVAILABLE, worker, game, session, probe>>

\* ------------------------------------------------------------------------
\* Ingestion specification: the ingestion thread alone, over MaxLaps laps
\* ------------------------------------------------------------------------
IngestTick == TickUpTo(MaxLaps)

IngestLapChange == LapChangeUpTo(MaxLaps, StyleNames)

NextIngest ==
    \/ IngestTick
    \/ IngestLapChange
    \/ LapStart

SpecIngest == Init /\ [][NextIngest]_vars

\* ------------------------------------------------------------------------
\* Coach specification: the ingestion thread against the worker thread,
\* over RaceLaps laps
\* ------------------------------------------------------------------------
Tick == TickUpTo(RaceLaps)

LapChange == LapChangeUpTo(RaceLaps, RaceStyles)

Next ==
    \/ Tick
    \/ LapChange
    \/ LapStart
    \/ WorkerCallGet
    \/ WorkerGetStep
    \/ WorkerRenderDone

Spec == Init /\ [][Next]_vars

\* ------------------------------------------------------------------------
\* Function specification: one call of a pure function on arguments drawn
\* from bounded sets. probe records the arguments and the result.
\* ------------------------------------------------------------------------
MaxRows == 3

ProbeDistances == {100, 200, 300}

\* time (ms) and speed (km/h) of a row
ProbeValues == {<<1000, 250>>, <<2000, 100>>, <<4000, 180>>}

ProbeRows ==
    {[lap_distance |-> d, current_lap_time |-> v[1], speed |-> v[2]] :
        d \in ProbeDistances, v \in ProbeValues}

\* the data frames of up to MaxRows rows, in any order of rows
ProbeSeries == UNION {[1..n -> ProbeRows] : n \in 0..MaxRows}

\* the frames recorded by driving: distance and time grow along the rows
ProbeLaps ==
    {df \in ProbeSeries :
        /\ Len(df) > 0
        /\ \A i \in 1..(Len(df) - 1) :
              /\ df[i].lap_distance < df[i + 1].lap_distance
              /\ df[i].current_lap_time < df[i + 1].current_lap_time}

\* the distances asked for: below, at, between and beyond the rows
ProbeTargets == {50, 100, 140, 200, 260, 300, 350}

ProbeTimes == {1500, 4500}

\* _value_at_distance(df, target_distance, column) on any frame
ValueProbe ==
    /\ probe.op = "none"
    /\ \E df \in ProbeSeries, target_distance \in ProbeTargets,
          column \in {"current_lap_time", "speed"} :
          \E work \in sort_values(df) :
             probe' = [op |-> "value", df |-> df, work |-> work,
                       target_distance |-> target_distance, column |-> column,
                       result |-> _value_at_distance(work, target_distance, column)]
    /\ UNCHANGED <<TTS_AVAILABLE, now, coach, tts, shared_state, worker, calls,
                   ingest, game, hist, session>>

\* the world in which the coach holds the analyzer and the car is at
\* current_lap_distance after current_lap_time
ProbeWorld(analyzer, current_lap_distance, current_lap_time) ==
    [World EXCEPT !.coach.track_analyzer = analyzer,
                  !.coach.current_lap_distance = current_lap_distance,
                  !.coach.current_lap_time = current_lap_time]

\* calculate_delta() with or without a reference lap
DeltaProbe ==
    /\ probe.op = "none"
    /\ \E analyzer \in {NoneVal} \cup {Some(AnalyzeZones(df, <<>>, <<>>)) : df \in ProbeLaps},
          current_lap_distance \in ProbeTargets, current_lap_time \in ProbeTimes :
          probe' = [op |-> "delta", analyzer |-> analyzer,
                    current_lap_distance |-> current_lap_distance,
                    current_lap_time |-> current_lap_time,
                    result |-> calculate_delta(ProbeWorld(analyzer, current_lap_distance,
                                                          current_lap_time))]
    /\ UNCHANGED <<TTS_AVAILABLE, now, coach, tts, shared_state, worker, calls,
                   ingest, game, hist, session>>

\* A synthetic reference lap sampled every spacing metres from offset to
\* ProbeTrackLength: the brake is at 60 percent on [100, 180] and released
\* elsewhere, the wheel is straight.
Spacings == {10, 20}

Offsets == {0, 3}

ProbeTrackLength == 300

BrakingLap(spacing, offset) ==
    [i \in 1..((ProbeTrackLength - offset) \div spacing + 1) |->
        LET d == offset + (i - 1) * spacing
        IN  [lap_distance |-> d,
             current_lap_time |-> 10 * d,
             speed |-> 200,
             gear |-> 5,
             steer |-> 0,
             brake |-> IF d >= 100 /\ d <= 180 THEN 60 ELSE 0,
             throttle |-> IF d >= 100 /\ d <= 180 THEN 0 ELSE 100]]

\* TrackAnalyzer(reference_df) on the synthetic lap
SegmentProbe ==
    /\ probe.op = "none"
    /\ \E spacing \in Spacings, offset \in Offsets :
          probe' = [op |-> "segment", spacing |-> spacing, offset |-> offset,
                    corners |-> TrackAnalyzer(BrakingLap(spacing, offset)).corners]
    /\ UNCHANGED <<TTS_AVAILABLE, now, coach, tts, shared_state, worker, calls,
                   ingest, game, hist, session>>

\* A synthetic reference lap sampled every 20 m up to CornerTrackLength: the
\* brake is pressed at pressure percent inside the intervals of brakes, the
\* wheel is turned inside the intervals of steers, and the car is slow in
\* both.
CornerTrackLength == 640

ProbeBrakeZones == {<<20, 120>>, <<440, 540>>}

ProbeSteerZones == {<<220, 280>>, <<20, 100>>}

ProbePressures == {22, 60}

Inside(d, zones) == \E z \in zones : d >= z[1] /\ d <= z[2]

CornerLap(brakes, steers, pressure) ==
    [i \in 1..(CornerTrackLength \div 20 + 1) |->
        [lap_distance |-> 20 * (i - 1),
         current_lap_time |-> 200 * (i - 1),
         speed |-> IF Inside(20 * (i - 1), brakes \cup steers) THEN 100 ELSE 200,
         gear |-> 5,
         steer |-> IF Inside(20 * (i - 1), steers) THEN 30 ELSE 0,
         brake |-> IF Inside(20 * (i - 1), brakes) THEN pressure ELSE 0,
         throttle |-> IF Inside(20 * (i - 1), brakes \cup steers) THEN 0 ELSE 100]]

\* what _analyze finds in the lap: the braking zones, the corners and what
\* _build_fallback_corners returns for the same lap
Segmentation(analyzer, df) ==
    [braking_zones |-> analyzer.braking_zones,
     corners |-> analyzer.corners,
     fallback_corners |-> SortSeq(_build_fallback_corners(df, 1, FALSE, 0, <<>>),
                                  ByStartDist)]

\* TrackAnalyzer(reference_df) on the synthetic lap with corners
CornerProbe ==
    /\ probe.op = "none"
    /\ \E brakes \in SUBSET ProbeBrakeZones, steers \in SUBSET ProbeSteerZones,
          pressure \in ProbePressures :
          probe' = [op |-> "corners", brakes |-> brakes, steers |-> steers,
                    pressure |-> pressure,
                    found |-> Segmentation(
                                  TrackAnalyzer(CornerLap(brakes, steers, pressure)),
                                  CornerLap(brakes, steers, pressure))]
    /\ UNCHANGED <<TTS_AVAILABLE, now, coach, tts, shared_state, worker, calls,
                   ingest, game, hist, session>>

\* the sector times (ms) classified, and the best and reference times they
\* are classified against
ProbeSectorTimes == {29000, 30000, 31000}

ProbeSectorMarks == {NoneVal, Some(29500), Some(30500)}

\* the world in which the lap has the two splits below and the sector has
\* the best and the reference time given
SectorProbeWorld(sector_num, best, ref, lap_is_invalid) ==
    [World EXCEPT !.coach.best_sector_times[sector_num] = best,
                  !.coach.reference_sector_times[sector_num] = ref,
                  !.coach.lap_is_invalid = lap_is_invalid,
                  !.coach.pending_sector1_time = 34000,
                  !.coach.pending_sector2_time = 30000]

\* sector 1 and 2 are classified by _announce_sector, sector 3 by _finish_lap
\* from the lap time
Classified(W, sector_num, sector_time) ==
    IF sector_num = 3
    THEN FinishSector3(W, W.coach.pending_sector1_time + W.coach.pending_sector2_time
                          + sector_time)
    ELSE _announce_sector(W, sector_num, sector_time)

SectorOutcome(W, sector_num) ==
    [colour |-> W.shared_state.sector_colors[sector_num],
     new_best |-> W.coach.best_sector_times[sector_num]]

\* the classification of a completed sector
SectorProbe ==
    /\ probe.op = "none"
    /\ \E sector_num \in 1..3, sector_time \in ProbeSectorTimes,
          best \in ProbeSectorMarks, ref \in ProbeSectorMarks,
          lap_is_invalid \in BOOLEAN :
          probe' = [op |-> "sector", sector_num |-> sector_num,
                    sector_time |-> sector_time, best |-> best, ref |-> ref,
                    lap_is_invalid |-> lap_is_invalid,
                    result |-> SectorOutcome(
                                   Classified(SectorProbeWorld(sector_num, best, ref,
                                                               lap_is_invalid),
                                              sector_num, sector_time),
                                   sector_num)]
    /\ UNCHANGED <<TTS_AVAILABLE, now, coach, tts, shared_state, worker, calls,
                   ingest, game, hist, session>>

\* ------------------------------------------------------------------------
\* Reason probe: _infer_corner_reason on the metric of a corner that differs
\* from the reference metric by the given amounts (None: the lap has no such
\* value), with and without a reference metric
\* ------------------------------------------------------------------------
ReasonReference ==
    [brake_point |-> Some(100), exit_speed |-> Some(150), apex_speed |-> 100,
     entry_speed |-> Some(200), throttle_point |-> Some(150)]

BrakeDiffs == {NoneVal, Some(0), Some(10), Some(11)}

ExitDiffs == {NoneVal, Some(0), Some(-8), Some(-9)}

ApexDiffs == {0, -6, -7}

EntryDiffs == {NoneVal, Some(0), Some(-2), Some(-9)}

ThrottleDiffs == {NoneVal, Some(0), Some(15), Some(16)}

LapDeltas == {NoneVal, Some(-100), Some(0), Some(100)}

Shifted(v, diff) == IF IsNone(diff) THEN NoneVal ELSE Some(Val(v) + Val(diff))

ReasonMetric(diffs) ==
    [delta_vs_ref |-> diffs.delta,
     brake_point |-> Shifted(ReasonReference.brake_point, diffs.brake),
     exit_speed |-> Shifted(ReasonReference.exit_speed, diffs.exit),
     apex_speed |-> ReasonReference.apex_speed + diffs.apex,
     entry_speed |-> Shifted(ReasonReference.entry_speed, diffs.entry),
     throttle_point |-> Shifted(ReasonReference.throttle_point, diffs.throttle)]

ReasonProbe ==
    /\ probe.op = "none"
    /\ \E brake \in BrakeDiffs, exit \in ExitDiffs, apex \in ApexDiffs, entry \in EntryDiffs,
          throttle \in ThrottleDiffs, delta \in LapDeltas, referenced \in BOOLEAN :
          probe' = [op |-> "reason",
                    diffs |-> [brake |-> brake, exit |-> exit, apex |-> apex,
                               entry |-> entry, throttle |-> throttle, delta |-> delta],
                    referenced |-> referenced,
                    reason |-> _infer_corner_reason(
                                   ReasonMetric([brake |-> brake, exit |-> exit,
                                                 apex |-> apex, entry |-> entry,
                                                 throttle |-> throttle, delta |-> delta]),
                                   IF referenced THEN Some(ReasonReference) ELSE NoneVal)]
    /\ UNCHANGED <<TTS_AVAILABLE, now, coach, tts, shared_state, worker, calls,
                   ingest, game, hist, session>>

NextProbe ==
    \/ ValueProbe
    \/ DeltaProbe
    \/ SegmentProbe
    \/ SectorProbe
    \/ CornerProbe
    \/ ReasonProbe

SpecProbe == Init /\ [][NextProbe]_vars

\* ------------------------------------------------------------------------
\* Recomputation specification: the ingestion thread, and one more call of
\* the analytics update on the lap that was just closed as a valid lap
\* ------------------------------------------------------------------------
\* the last lap closed was valid and is the one before the lap now starting,
\* so last_lap_corner_metrics are its corner metrics
JustAnalysed ==
    /\ ingest.pc = "lap_start"
    /\ Len(shared_state.lap_times) > 0
    /\ shared_state.lap_times[Len(shared_state.lap_times)].valid
    /\ shared_state.lap_times[Len(shared_state.lap_times)].lap_num
          = Val(ingest.sample).lap_num - 1

\* self._update_corner_mastery(corner_metrics) called again with the corner
\* metrics of the lap just closed (line 2205)
RerunAnalytics ==
    /\ JustAnalysed
    /\ probe.op = "none"
    /\ Commit(_update_corner_mastery(World, coach.last_lap_corner_metrics))
    /\ probe' = [op |-> "rerun"]
    /\ UNCHANGED <<TTS_AVAILABLE, now, worker, ingest, game, hist, session>>

NextRerun ==
    \/ IngestTick
    \/ IngestLapChange
    \/ LapStart
    \/ RerunAnalytics

SpecRerun == Init /\ [][NextRerun]_vars

\* ------------------------------------------------------------------------
\* Closure specification: the ingestion thread, with lap changes whose
\* sample reports no time for the lap that ended
\* ------------------------------------------------------------------------
UntimedLapChange == LapChangeReporting(MaxLaps, StyleNames, FALSE)

NextClosure ==
    \/ IngestTick
    \/ IngestLapChange
    \/ UntimedLapChange
    \/ LapStart

SpecClosure == Init /\ [][NextClosure]_vars

\* ------------------------------------------------------------------------
\* Session specification: run_coaching_session started from the menu or the
\* phone, against the web server's /stop route. The handling of a received
\* packet by the coach is the subject of the ingestion specifications.
\* ------------------------------------------------------------------------
MaxSessions == 2

MaxStops == 3

\* run_coaching_session, lines 2579-2590: the coach is built and the session
\* is marked active (the callers start no session while one is active)
StartSession ==
    /\ session.pc = "idle"
    /\ ~session.session_active
    /\ session.started < MaxSessions
    /\ session' = [session EXCEPT !.pc = "drain", !.session_active = TRUE,
                                  !.started = @ + 1, !.stopped_by = 0]
    /\ UNCHANGED <<TTS_AVAILABLE, now, coach, tts, shared_state, worker, calls,
                   ingest, game, hist, probe>>

\* lines 2592-2601: one turn of the loop that empties stop_queue, then the
\* socket is opened
DrainStale ==
    /\ session.pc = "drain"
    /\ session' = IF Len(session.stop_queue) > 0
                  THEN [session EXCEPT !.stop_queue = Tail(@)]
                  ELSE [session EXCEPT !.pc = "poll"]
    /\ UNCHANGED <<TTS_AVAILABLE, now, coach, tts, shared_state, worker, calls,
                   ingest, game, hist, probe>>

\* lines 2615-2622: get_nowait() at the top of the loop
PollStop ==
    /\ session.pc = "poll"
    /\ session' = IF Len(session.stop_queue) > 0
                  THEN [session EXCEPT !.pc = "teardown", !.stop_queue = Tail(@),
                                       !.stopped_by = Head(session.stop_queue)]
                  ELSE [session EXCEPT !.pc = "recv"]
    /\ UNCHANGED <<TTS_AVAILABLE, now, coach, tts, shared_state, worker, calls,
                   ingest, game, hist, probe>>

\* lines 2624-2734: recvfrom returns a packet or times out after 1 s, and the
\* loop goes round
Receive ==
    /\ session.pc = "recv"
    /\ session' = [session EXCEPT !.pc = "poll"]
    /\ UNCHANGED <<TTS_AVAILABLE, now, coach, tts, shared_state, worker, calls,
                   ingest, game, hist, probe>>

\* lines 2736-2775: the report, the farewell, and the session is marked
\* inactive
Teardown ==
    /\ session.pc = "teardown"
    /\ session' = [session EXCEPT !.pc = "idle", !.session_active = FALSE,
                                  !.owed = FALSE]
    /\ UNCHANGED <<TTS_AVAILABLE, now, coach, tts, shared_state, worker, calls,
                   ingest, game, hist, probe>>

\* POST /stop on the web server's thread: accepted while a session is active,
\* refused (409) otherwise
stop_session ==
    /\ session.requests < MaxStops
    /\ session' =
          IF session.session_active
          THEN [session EXCEPT !.requests = @ + 1,
                               !.stop_queue = Append(@, session.started),
                               !.owed = @ \/ session.pc \in {"drain", "poll", "recv"}]
          ELSE [session EXCEPT !.requests = @ + 1]
    /\ UNCHANGED <<TTS_AVAILABLE, now, coach, tts, shared_state, worker, calls,
                   ingest, game, hist, probe>>

NextSession ==
    \/ StartSession
    \/ DrainStale
    \/ PollStop
    \/ Receive
    \/ Teardown
    \/ stop_session

\* the session's thread keeps running: every step of run_coaching_session
\* that can be taken is taken (recvfrom returns within its 1 s timeout)
FairSession ==
    /\ WF_vars(DrainStale)
    /\ WF_vars(PollStop)
    /\ WF_vars(Receive)
    /\ WF_vars(Teardown)

SpecSession == Init /\ [][NextSession]_vars /\ FairSession

\* ------------------------------------------------------------------------
\* Cue specification: the ingestion thread over RaceLaps laps driven steady
\* or lazy, so that cues of one category are due several times in a lap
\* ------------------------------------------------------------------------
CueTick == TickUpTo(RaceLaps)

CueLapChange == LapChangeUpTo(RaceLaps, CueStyles)

NextCues ==
    \/ CueTick
    \/ CueLapChange
    \/ LapStart

SpecCues == Init /\ [][NextCues]_vars

\* ------------------------------------------------------------------------
\* Start specification: the menu thread and the phone-command watcher thread
\* of main(), each of which may call run_coaching_session, and the web
\* server's /start route
\* ------------------------------------------------------------------------
MaxStarts == 2

FrameStart ==
    UNCHANGED <<TTS_AVAILABLE, now, coach, tts, shared_state, worker, calls,
                ingest, game, hist, probe>>

\* main(), lines 69-81: choice 1 or 2 of the menu; the session is refused
\* while one is active, else run_coaching_session is called
MenuChoose ==
    /\ session.menu = "menu"
    /\ session.choices < MaxStarts
    /\ session' = [session EXCEPT !.choices = @ + 1,
                                  !.menu = IF session.session_active THEN "menu"
                                           ELSE "enter"]
    /\ FrameStart

\* run_coaching_session in the menu thread, lines 2579-2588: the session
\* manager and the coach are built, then the session is marked active
MenuBegin ==
    /\ session.menu = "enter"
    /\ session' = [session EXCEPT !.menu = "run", !.session_active = TRUE]
    /\ FrameStart

\* the session of the menu thread ends (line 2760) and the menu is shown again
MenuFinish ==
    /\ session.menu = "run"
    /\ session' = [session EXCEPT !.menu = "menu", !.session_active = FALSE]
    /\ FrameStart

\* POST /start/<mode> on the web server's thread: refused (409) while a
\* session is active, else the mode is queued
start_mode ==
    /\ session.posts < MaxStarts
    /\ session' = [session EXCEPT !.posts = @ + 1,
                                  !.start_queue = IF session.session_active THEN @
                                                  ELSE @ + 1]
    /\ FrameStart

\* _phone_command_watcher, lines 45-46: a mode is taken from start_queue
WatcherGet ==
    /\ session.watcher = "wait"
    /\ session.start_queue > 0
    /\ session' = [session EXCEPT !.start_queue = @ - 1, !.watcher = "got"]
    /\ FrameStart

\* lines 50-55: the request is dropped while a session is active, else
\* run_coaching_session is called
WatcherCheck ==
    /\ session.watcher = "got"
    /\ session' = [session EXCEPT !.watcher = IF session.session_active THEN "wait"
                                              ELSE "enter"]
    /\ FrameStart

WatcherBegin ==
    /\ session.watcher = "enter"
    /\ session' = [session EXCEPT !.watcher = "run", !.session_active = TRUE]
    /\ FrameStart

WatcherFinish ==
    /\ session.watcher = "run"
    /\ session' = [session EXCEPT !.watcher = "wait", !.session_active = FALSE]
    /\ FrameStart

NextStart ==
    \/ MenuChoose
    \/ MenuBegin
    \/ MenuFinish
    \/ start_mode
    \/ WatcherGet
    \/ WatcherCheck
    \/ WatcherBegin
    \/ WatcherFinish

SpecStart == Init /\ [][NextStart]_vars

\* ========================================================================
\* Claims
\* ========================================================================
Pending == tts.queue

Added == tts'.queue \ tts.queue

Removed == tts.queue \ tts'.queue

\* C1: SmartTTSQueue.put admission. A put with priority MEDIUM or LOW while 3
\* or more items are pending returns False and leaves the pending items
\* unchanged; a put with priority CRITICAL or HIGH returns True and adds the
\* item, whatever the number of pending items.
C1_PutAdmission ==
    [][\A i \in 1..Len(calls') :
          LET c == calls'[i] IN
          c.put =>
            /\ (c.priority \in {2, 3} /\ Cardinality(Pending) >= 3)
                  => (~c.ret /\ tts'.queue = tts.queue)
            /\ (c.priority \in {0, 1})
                  => /\ c.ret
                     /\ Cardinality(tts'.queue) = Cardinality(Pending) + 1
                     /\ \E it \in Added : it.priority = c.priority /\ it.message = c.message
      ]_vars

\* C1 witness: four items pending, the fourth one CRITICAL or HIGH (admitted
\* over a backlog of three), after a MEDIUM or LOW put was refused.
C1_Witness ==
    /\ Cardinality(Pending) = 4
    /\ tts.message_counter = 5
    /\ \E it \in Pending : it.priority \in {0, 1} /\ it.counter = 5
    /\ \A it \in Pending : it.counter # 4

\* C2: SmartTTSQueue.get never returns a message whose anchor is further than
\* valid_range from the distance passed to get, nor one older than 3 s; every
\* such entry it meets is removed, and no removed entry comes back.
C2_NoStaleDelivery ==
    [][/\ (worker.pc = "get" /\ worker'.pc = "render") =>
            \A d \in worker'.data :
                /\ Abs(worker.current_distance - d.distance) <= d.valid_range
                /\ now - d.timestamp <= 3000
       /\ worker.pc = "get" =>
            \A d \in Removed :
                (\/ Abs(worker.current_distance - d.distance) > d.valid_range
                 \/ now - d.timestamp > 3000) => worker'.data = {}
       /\ \A it \in Added : it.counter > tts.message_counter
      ]_vars

\* C2 witness: get dropped a stale entry and then returned a fresh one, anchored
\* at 1000 with range 50 and asked for at distance 1050.
C2_Witness ==
    /\ worker.pc = "render"
    /\ worker.pops >= 2
    /\ worker.current_distance = 1050
    /\ \E d \in worker.data : d.distance = 1000 /\ d.valid_range = 50

\* C6: get takes the pending entry with the lowest priority number, and among
\* equal priorities the one enqueued first; the sequence numbers of admitted
\* entries are strictly increasing, so no two pending entries tie.
C6_DequeueOrder ==
    [][/\ worker.pc = "get" =>
            \A d \in Removed : \A o \in tts'.queue :
                \/ d.priority < o.priority
                \/ d.priority = o.priority /\ d.counter < o.counter
       /\ \A it \in Added : \A o \in Pending : it.counter > o.counter
       /\ \A a \in tts'.queue : \A b \in tts'.queue :
                (a.counter = b.counter) => a = b
      ]_vars

\* C6 witness: get returned an entry ahead of an older entry of lower urgency
\* and ahead of a younger entry of the same priority.
C6_Witness ==
    /\ worker.pc = "render"
    /\ \E d \in worker.data :
          /\ \E o \in Pending : o.priority > d.priority /\ o.counter < d.counter
          /\ \E o \in Pending : o.priority = d.priority /\ o.counter > d.counter

\* C8: wall-clock cooldown. A non-forced speak within 0.8 s of the last
\* accepted message is rejected and changes nothing; a forced speak is never
\* rejected by the cooldown; every accepted message restarts the cooldown.
C8_WallClockCooldown ==
    [][\A i \in 1..Len(calls') :
          LET c == calls'[i] IN
          /\ (~c.force /\ now - coach.last_cue_time < 800) =>
                /\ ~c.ret
                /\ tts' = tts
                /\ shared_state'.speech_log = shared_state.speech_log
                /\ coach'.last_cue_time = coach.last_cue_time
          /\ c.force => (c.ret \/ c.put)
          /\ c.ret => coach'.last_cue_time = now
      ]_vars

\* the closed laps, in order, as the game delivered them
ClosedLaps == 1..Len(hist.closed)

\* C3: a lap in which the validity flag was 1 on any sample is closed as
\* invalid, whatever the flag is on its last samples: it is listed as not
\* valid, is not stored as a completed lap and is not the reference.
C3_RaisedLapClosedInvalid ==
    \A i \in ClosedLaps :
        hist.closed[i].raised =>
            /\ ~shared_state.lap_times[i].valid
            /\ hist.closed[i].lap_num \notin DOMAIN coach.completed_laps
            /\ coach.reference_lap_num # Some(hist.closed[i].lap_num)

\* the closed laps on which the validity flag was never raised
ValidLaps == {i \in ClosedLaps : ~hist.closed[i].raised}

\* C4: the reference is absent while no valid lap has closed; otherwise it is
\* the valid closed lap with the smallest time, the earliest of equal ones
\* (only a strictly faster lap replaces it). An invalid lap is never it.
C4_ReferenceIsFastestValid ==
    IF ValidLaps = {}
    THEN IsNone(coach.reference_lap_num) /\ IsNone(coach.reference)
    ELSE \E i \in ValidLaps :
            /\ coach.reference_lap_num = Some(hist.closed[i].lap_num)
            /\ coach.reference_lap_time = Some(hist.closed[i].time)
            /\ \A j \in ValidLaps :
                  \/ hist.closed[i].time < hist.closed[j].time
                  \/ hist.closed[i].time = hist.closed[j].time /\ i <= j

\* C5: when the reference lap is replaced, the corners are numbered anew from
\* the new reference and no per-corner history or mastery entry recorded
\* under the previous numbering is kept: what is held afterwards comes from
\* the promoted lap alone.
C5_PromotionClearsCornerHistory ==
    [][coach'.reference_lap_num # coach.reference_lap_num =>
          /\ Val(coach'.track_analyzer) = TrackAnalyzer(coach'.reference)
          /\ \A t \in DOMAIN coach'.corner_history :
                /\ Len(coach'.corner_history[t].delta) <= 1
                /\ Len(coach'.corner_history[t].entry) <= 1
                /\ Len(coach'.corner_history[t].brake) <= 1
          /\ \A k \in DOMAIN coach'.corner_mastery :
                coach'.corner_mastery[k].turn \in
                    {Val(coach'.track_analyzer).corners[n].turn_number :
                        n \in DOMAIN Val(coach'.track_analyzer).corners}
      ]_vars

\* C7: in a lap in which the validity flag was raised exactly one
\* lap-invalidated message has been issued, on the tick the flag rose; in a
\* lap in which it was not raised, none.
C7_OneInvalidationPerLap ==
    /\ hist.messages = IF hist.raised THEN 1 ELSE 0
    /\ \A i \in ClosedLaps :
          hist.closed[i].messages = IF hist.closed[i].raised THEN 1 ELSE 0

\* C9: when the lap number changes, all per-lap state is cleared before the
\* first sample of the new lap is processed: corner tracking and callout
\* counters, warned braking zones, validity flags, pending sector times and
\* announced flags, live bins and bin deltas, every distance cooldown (back
\* to its initial value), and the pending messages.
C9_LapChangeClearsPerLapState ==
    ingest.pc = "lap_start" =>
        /\ coach.current_lap_num = Val(ingest.sample).lap_num
        /\ coach.current_lap_corner_data = <<>>
        /\ coach.corner_tracking_state = <<>>
        /\ coach.corner_feedback_given = {}
        /\ coach.corner_callouts_this_lap = 0
        /\ coach.warned_braking_zones = {}
        /\ ~coach.lap_is_invalid /\ ~coach.lap_was_invalid
        /\ coach.pending_sector1_time = 0 /\ coach.pending_sector2_time = 0
        /\ \A n \in 1..2 : ~coach.sector_announced[n]
        /\ IsNone(coach.last_live_bin_index)
        /\ \A b \in Bins : /\ IsNone(coach.current_lap_bin_times[b])
                           /\ IsNone(coach.current_segment_deltas[b])
        /\ \A cat \in CooldownCategories : coach.cooldowns[cat] = -1000
        /\ coach.current_lap_data = <<>>
        /\ tts.queue = {}

\* C9 witness: the lap number changed after a lap that left something in
\* every group of per-lap state, pending messages included.
C9_Witness ==
    /\ ingest.pc = "lap_start"
    /\ hist.dirty = {"corner", "warned", "validity", "sector", "bins", "cooldown", "queue"}

\* C10 as stated: the number of pending messages never exceeds a fixed bound
\* (the backlog limit of put).
C10_QueueBounded == Cardinality(Pending) <= QUEUE_BACKLOG_LIMIT

\* the pending messages of priority MEDIUM or LOW
PendingRoutine == {it \in Pending : it.priority >= 2}

\* C10 as amended: the number of pending MEDIUM and LOW messages never exceeds
\* 3, and a put never adds one to a queue that already holds 3 messages; only
\* CRITICAL and HIGH messages take the queue beyond 3.
C10_RoutineBacklogBounded ==
    /\ Cardinality(PendingRoutine) <= QUEUE_BACKLOG_LIMIT
    /\ Cardinality(Pending) > QUEUE_BACKLOG_LIMIT
          => \E it \in Pending : it.priority <= PRIORITY_HIGH

\* C10 witness: three MEDIUM or LOW messages pending, and a CRITICAL or HIGH
\* one admitted after them as the fourth.
C10_Witness ==
    /\ Cardinality(PendingRoutine) = 3
    /\ Cardinality(Pending) = 4
    /\ \E it \in Pending : it.priority <= 1 /\ \A o \in PendingRoutine : o.counter < it.counter

\* C11: live delta. With no reference lap or with the car below 100 m the
\* delta is 0; otherwise it is current_lap_time minus the reference lap's time
\* linearly interpolated at the current distance.
C11_DeltaInterpolated ==
    probe.op = "delta" =>
        probe.result =
            IF IsNone(probe.analyzer) \/ probe.current_lap_distance < 100
            THEN 0
            ELSE probe.current_lap_time
                   - Val(_time_at_distance(Val(probe.analyzer).reference,
                                           probe.current_lap_distance))

\* the least and the greatest value of a column of a non-empty frame
ColumnMin(df, column) ==
    CHOOSE v \in {df[i][column] : i \in 1..Len(df)} :
        \A i \in 1..Len(df) : v <= df[i][column]

ColumnMax(df, column) ==
    CHOOSE v \in {df[i][column] : i \in 1..Len(df)} :
        \A i \in 1..Len(df) : v >= df[i][column]

\* the result lies between the values of two rows next to each other in the
\* sorted frame that bracket the distance d
Bracketed(work, d, column, v) ==
    \E i \in 1..(Len(work) - 1) :
        /\ work[i].lap_distance <= d /\ d <= work[i + 1].lap_distance
        /\ Min2(work[i][column], work[i + 1][column]) <= v
        /\ v <= Max2(work[i][column], work[i + 1][column])

\* C12: interpolation range. For a non-empty frame and any distance the value
\* returned lies between the least and the greatest value of the column: it is
\* the first (last) row's value at or beyond the ends of the sorted frame, and
\* between the values of the two bracketing rows inside.
C12_InterpolationRange ==
    (probe.op = "value" /\ Len(probe.df) > 0) =>
        LET work == probe.work
            d == probe.target_distance
            col == probe.column
        IN  /\ ~IsNone(probe.result)
            /\ ColumnMin(probe.df, col) <= Val(probe.result)
            /\ Val(probe.result) <= ColumnMax(probe.df, col)
            /\ d <= work[1].lap_distance => Val(probe.result) = work[1][col]
            /\ d >= work[Len(work)].lap_distance =>
                  \/ Val(probe.result) = work[Len(work)][col]
                  \/ d <= work[1].lap_distance
            /\ (d > work[1].lap_distance /\ d < work[Len(work)].lap_distance) =>
                  Bracketed(work, d, col, Val(probe.result))

\* a query strictly inside the range of a frame whose two bracketing rows
\* differ, answered with a value strictly between theirs
C12_Witness ==
    /\ probe.op = "value"
    /\ Len(probe.df) = 3
    /\ probe.target_distance = 140
    /\ probe.work[1].lap_distance = 100
    /\ probe.work[2].lap_distance = 200
    /\ probe.work[1][probe.column] < Val(probe.result)
    /\ Val(probe.result) < probe.work[2][probe.column]

\* the first row of df, in the order given, at the distance d
FirstAt(df, d) ==
    df[CHOOSE i \in 1..Len(df) : /\ df[i].lap_distance = d
                                /\ \A j \in 1..(i - 1) : df[j].lap_distance # d]

\* C13: interpolation exactness and ties. A query at the distance of a row
\* returns that row's value, the first such row's when several rows share
\* the distance, also at the smallest and at the largest distance.
C13_FirstOccurrenceReturned ==
    (/\ probe.op = "value"
     /\ \E i \in 1..Len(probe.df) : probe.df[i].lap_distance = probe.target_distance) =>
        probe.result = Some(FirstAt(probe.df, probe.target_distance)[probe.column])

\* the tolerance, in samples, of a corner's start and end
FewSamples == 4

\* C14: segmentation of the synthetic lap braked at 60 percent on [100, 180]
\* with a straight wheel gives exactly one corner, which starts within a few
\* samples of 100 m and ends within a few samples of 180 m.
C14_OneCornerAtBrake ==
    probe.op = "segment" =>
        /\ Len(probe.corners) = 1
        /\ Abs(probe.corners[1].start_dist - 100) <= FewSamples * probe.spacing
        /\ Abs(probe.corners[1].end_dist - 180) <= FewSamples * probe.spacing

\* the lap sampled every 10 m from 3 m: the smoothed brake opens the corner
\* after 100 m and closes it after 180 m
C14_Witness ==
    /\ probe.op = "segment"
    /\ probe.spacing = 10
    /\ probe.offset = 3
    /\ Len(probe.corners) = 1
    /\ probe.corners[1].start_dist > 100
    /\ probe.corners[1].end_dist > 180
    /\ probe.corners[1].turn_number = 1

\* C15: idempotence of the post-lap analytics. Running the analytics update a
\* second time on the lap just closed, with no new input, leaves the mastery
\* output as the first run made it.
C15_RerunKeepsMastery ==
    [][(probe.op = "none" /\ probe'.op = "rerun") =>
          coach'.corner_mastery = coach.corner_mastery]_vars

\* the reference and the analytics that the closure of a lap writes
ClosureOutputs(c, ss) ==
    <<c.reference, c.reference_lap_num, c.reference_lap_time, c.track_analyzer,
      c.reference_bin_times, c.completed_laps, c.valid_lap_times, c.sector_history,
      c.best_sector_times, c.corner_history, c.corner_mastery,
      c.last_lap_corner_metrics, c.last_time_loss_summary, c.last_lap_segment_deltas,
      ss.lap_times, ss.fastest_lap>>

\* C16: lap closure preconditions. On a lap-number change the lap that ended
\* is closed only if its number is above 0, the incoming sample reports a
\* last lap time above 0 and samples were recorded; otherwise the reference and
\* the analytics stay as they were. The out lap is never closed, its samples
\* are never recorded and it never becomes the reference.
C16_ClosurePreconditions ==
    [][/\ (/\ ingest'.pc = "lap_start"
           /\ ~(/\ coach.current_lap_num > 0
                /\ Val(ingest'.sample).last_lap_time > 0
                /\ Len(coach.current_lap_data) > 0)) =>
              /\ ClosureOutputs(coach', shared_state') = ClosureOutputs(coach, shared_state)
              /\ \A i \in 1..Len(calls') : calls'[i].message # "lap_time"
       /\ coach'.current_lap_num <= 0 => coach'.current_lap_data = <<>>
       /\ coach'.reference_lap_num # Some(0)
       /\ 0 \notin DOMAIN coach'.completed_laps
       /\ \A i \in 1..Len(shared_state'.lap_times) : shared_state'.lap_times[i].lap_num > 0
      ]_vars

\* lap 2 ended with a reference in place and samples recorded, and the first
\* sample of lap 3 reported no time for it: lap 2 was not recorded
C16_Witness ==
    /\ ingest.pc = "lap_start"
    /\ Val(ingest.sample).lap_num = 3
    /\ Val(ingest.sample).last_lap_time = 0
    /\ coach.reference_lap_num = Some(1)
    /\ Len(shared_state.lap_times) = 1
    /\ coach.current_lap_data = <<>>

\* the cues anchored at a distance of the reference lap
CueMessages ==
    {"brake_warning", "brake_now", "brake_with_gear", "downshift", "get_on_power",
     "carry_more_speed", "good_speed", "corner_brake_earlier", "corner_focus_exit",
     "corner_overslow_apex", "corner_entry_speed", "corner_good"}

\* C17: graceful degradation before a baseline. While no reference lap
\* exists, a processed sample gives no braking, gear, throttle, speed or
\* corner cue, the live delta is 0 and the live bin profile stays empty.
C17_NoCueBeforeBaseline ==
    (ingest.pc = "recv" /\ IsNone(coach.reference)) =>
        /\ \A i \in 1..Len(calls) : calls[i].message \notin CueMessages
        /\ coach.current_delta = 0
        /\ shared_state.current_delta = 0
        /\ \A b \in Bins : /\ IsNone(coach.current_lap_bin_times[b])
                           /\ IsNone(coach.current_segment_deltas[b])
        /\ IsNone(coach.last_live_bin_index)

\* the braking point of lap 2 processed with no reference, lap 1 having
\* ended without becoming one
C17_Witness ==
    /\ ingest.pc = "recv"
    /\ IsNone(coach.reference)
    /\ coach.current_lap_num = 2
    /\ coach.current_lap_distance = 150
    /\ coach.current_brake > 0
    /\ Len(coach.current_lap_data) = 3

\* C18: session stop. A stop request accepted by /stop while the session's
\* loop runs is not lost: the loop of that session eventually exits.
C18_StopEndsLoop == session.owed ~> session.pc = "teardown"

\* the loop of a session exits only on a stop request accepted during that
\* session
C18_NoLeftoverStop ==
    session.pc = "teardown" => session.stopped_by = session.started

\* the lap time and its follow-up, spoken when a lap is closed
LapResultMessages ==
    {"lap_time", "baseline_set", "purple_lap", "lap_close", "lap_ok", "lap_slow"}

\* C19: the lap-result messages enqueued when a lap is closed are not removed
\* by the lap-boundary reset: once the lap-number change has been processed
\* each of them is pending in the queue or in the hands of the worker.
C19_LapResultSurvivesReset ==
    [][(ingest.pc = "recv" /\ ingest'.pc = "lap_start") =>
          \A i \in 1..Len(calls') :
              (calls'[i].message \in LapResultMessages /\ calls'[i].put /\ calls'[i].ret) =>
                  \E it \in tts'.queue \cup worker'.data :
                      it.message = calls'[i].message]_vars

\* C20: the anchor distance that put stores with a message is the car's lap
\* distance at the tick that produced the message, never one left over from
\* an earlier tick or from the lap before.
C20_AnchorIsCurrentDistance ==
    [][\A it \in Added : it.distance = coach'.current_lap_distance]_vars

\* a step of the ingestion thread
IngestStep == <<game, ingest>>' # <<game, ingest>>

C22_RejectedCueKeepsCooldown ==
    [][IngestStep =>
          \A i \in 1..Len(calls') :
              LET cat == CategoryOf(calls'[i].message)
              IN  (/\ cat \in CooldownCategories
                   /\ ~calls'[i].ret
                   /\ \A j \in 1..Len(calls') :
                         CategoryOf(calls'[j].message) = cat => ~calls'[j].ret
                   /\ ingest'.pc = "recv") =>
                      coach'.cooldowns[cat] = coach.cooldowns[cat]]_vars

\* C23: at most one coaching session runs at a time: run_coaching_session is
\* never executing in the menu thread and in the watcher thread at once.
C23_OneSession ==
    ~(session.menu \in {"enter", "run"} /\ session.watcher \in {"enter", "run"})

\* ------------------------------------------------------------------------
\* F1Coach.update_telemetry as one step: the lap change, when the sample
\* carries another lap number, and the processing of the sample
\* ------------------------------------------------------------------------
update_telemetry(W, smp) ==
    IF smp.lap_num # W.coach.current_lap_num
    THEN ProcessSample(LapAnnounce(LapChangeBody(W, smp), smp.lap_num), smp)
    ELSE ProcessSample(W, smp)

\* ------------------------------------------------------------------------
\* Course specification: laps over a course with five braking zones, sampled
\* every 40 metres. The reference is a lap of the course that was promoted;
\* the laps after it are driven at the pace of the course or slowly (30 km/h
\* less everywhere, 10 percent more time), and within a lap the car may once
\* move back by two samples. The game reports no last lap time at the lap
\* changes (last_lap_time = 0), so a lap change resets the lap state without
\* closing the lap. probe holds the lap, the distance and the lap clock of
\* the game, and the corners that were given feedback in the lap.
\* ------------------------------------------------------------------------
CourseRows == 37

MaxCourseLaps == 2

CourseLength == 40 * (CourseRows - 1)

\* the brake is pressed from 40 m to 80 m after every 280 m
CourseZones == {<<280 * k + 40, 280 * k + 80>> : k \in 0..4}

CourseSample(lap, d, t, slow, last_lap_time) ==
    [speed |-> (IF Inside(d, CourseZones) THEN 100 ELSE 200) - (IF slow THEN 30 ELSE 0),
     throttle |-> IF Inside(d, CourseZones) THEN 0 ELSE 100,
     brake |-> IF Inside(d, CourseZones) THEN 100 ELSE 0,
     gear |-> 5,
     steer |-> 0,
     lap_distance |-> d,
     lap_num |-> lap,
     current_lap_time |-> t,
     last_lap_time |-> last_lap_time,
     sector |-> 0,
     sector1_time |-> 0,
     sector2_time |-> 0,
     lap_invalid |-> 0,
     total_warnings |-> 0,
     corner_warnings |-> 0,
     penalties |-> 0]

CourseStep(slow) == IF slow THEN 1100 ELSE 1000

\* the rows of a whole lap of the course
CourseLap(slow) ==
    [i \in 1..CourseRows |->
        LapRow(CourseSample(1, 40 * (i - 1), CourseStep(slow) * (i - 1), slow, 0))]

CornerMessages ==
    {"corner_brake_earlier", "corner_focus_exit", "corner_overslow_apex",
     "corner_entry_speed", "corner_good"}

CornerCalls(cs) == Cardinality({i \in 1..Len(cs) : cs[i].message \in CornerMessages})

\* the turns completed by the step
NewlyCompleted(before, after) ==
    {turn \in DOMAIN after :
        /\ after[turn].completed
        /\ turn \notin DOMAIN before \/ ~before[turn].completed}

\* the turns given feedback by the step, appended to fed
FedAfter(fed, cs, before, after) ==
    IF CornerCalls(cs) > 0
    THEN fed \o SortedTurns(NewlyCompleted(before, after))
    ELSE fed

\* _finish_lap, lines 2094-2143: a lap of the course becomes the reference
CourseReference ==
    /\ probe.op = "none"
    /\ \E slow \in BOOLEAN :
          Commit(Promote(World, 1, CourseStep(slow) * CourseRows, CourseLap(slow)))
    /\ probe' = [op |-> "course", lap |-> 1, d |-> CourseLength, t |-> 0,
                 slow |-> FALSE, back |-> FALSE, fed |-> <<>>]
    /\ now' = now + TickTime
    /\ UNCHANGED <<TTS_AVAILABLE, worker, ingest, game, hist, session>>

\* the first sample of the next lap
CourseLapStart ==
    /\ probe.op = "course"
    /\ probe.d >= CourseLength
    /\ probe.lap <= MaxCourseLaps
    /\ \E slow \in BOOLEAN :
          /\ Commit(update_telemetry(World, CourseSample(probe.lap + 1, 0, 0, slow, 0)))
          /\ probe' = [op |-> "course", lap |-> probe.lap + 1, d |-> 0, t |-> 0,
                       slow |-> slow, back |-> FALSE, fed |-> <<>>]
    /\ now' = now + TickTime
    /\ UNCHANGED <<TTS_AVAILABLE, worker, ingest, game, hist, session>>

\* the next sample of the lap
CourseTick ==
    /\ probe.op = "course"
    /\ probe.lap > 1
    /\ probe.d < CourseLength
    /\ Commit(update_telemetry(
                  World,
                  CourseSample(probe.lap, probe.d + 40,
                               probe.t + CourseStep(probe.slow), probe.slow, 0)))
    /\ probe' = [probe EXCEPT
                    !.d = @ + 40,
                    !.t = @ + CourseStep(probe.slow),
                    !.fed = FedAfter(@, calls', coach.current_lap_corner_data,
                                     coach'.current_lap_corner_data)]
    /\ now' = now + TickTime
    /\ UNCHANGED <<TTS_AVAILABLE, worker, ingest, game, hist, session>>

\* the car has moved back by two samples
CourseBack ==
    /\ probe.op = "course"
    /\ probe.lap > 1
    /\ ~probe.back
    /\ probe.d >= 80
    /\ Commit(update_telemetry(
                  World,
                  CourseSample(probe.lap, probe.d - 80,
                               probe.t + CourseStep(probe.slow), probe.slow, 0)))
    /\ probe' = [probe EXCEPT
                    !.d = @ - 80,
                    !.t = @ + CourseStep(probe.slow),
                    !.back = TRUE,
                    !.fed = FedAfter(@, calls', coach.current_lap_corner_data,
                                     coach'.current_lap_corner_data)]
    /\ now' = now + TickTime
    /\ UNCHANGED <<TTS_AVAILABLE, worker, ingest, game, hist, session>>

NextCourse ==
    \/ CourseReference
    \/ CourseLapStart
    \/ CourseTick
    \/ CourseBack

SpecCourse == Init /\ [][NextCourse]_vars

\* ------------------------------------------------------------------------
\* Penalty specification: ticks before the start line (lap number 0, no
\* reference) whose warning and penalty counters are drawn freely; the car
\* cruises at 200 km/h. probe holds the counters of the tick (seen) and of
\* the tick before it (before; 0 before the first tick).
\* ------------------------------------------------------------------------
MaxPenaltyTicks == 3

Counters == 0..2

CruiseSample(d, speed, brake, total_warnings, corner_warnings, penalties) ==
    [speed |-> speed,
     throttle |-> IF brake > 0 THEN 0 ELSE 100,
     brake |-> brake,
     gear |-> 7,
     steer |-> 0,
     lap_distance |-> d,
     lap_num |-> 0,
     current_lap_time |-> 0,
     last_lap_time |-> 0,
     sector |-> 0,
     sector1_time |-> 0,
     sector2_time |-> 0,
     lap_invalid |-> 0,
     total_warnings |-> total_warnings,
     corner_warnings |-> corner_warnings,
     penalties |-> penalties]

PenaltyTick ==
    /\ probe.op \in {"none", "penalties"}
    /\ probe.op = "penalties" => probe.ticks < MaxPenaltyTicks
    /\ \E total_warnings \in Counters, corner_warnings \in Counters, penalties \in Counters :
          /\ Commit(update_telemetry(
                        World,
                        CruiseSample(IF probe.op = "none" THEN 0 ELSE 10 * probe.ticks,
                                     200, 0, total_warnings, corner_warnings, penalties)))
          /\ probe' = [op |-> "penalties",
                       ticks |-> IF probe.op = "none" THEN 1 ELSE probe.ticks + 1,
                       before |-> IF probe.op = "none"
                                  THEN [total_warnings |-> 0, corner_warnings |-> 0,
                                        penalties |-> 0]
                                  ELSE probe.seen,
                       seen |-> [total_warnings |-> total_warnings,
                                 corner_warnings |-> corner_warnings,
                                 penalties |-> penalties]]
    /\ now' = now + TickTime
    /\ UNCHANGED <<TTS_AVAILABLE, worker, ingest, game, hist, session>>

NextPenalties == PenaltyTick

SpecPenalties == Init /\ [][NextPenalties]_vars

\* ------------------------------------------------------------------------
\* Crash specification: ticks before the start line at a pace of 10 or 2
\* metres per tick. The car cruises at 200 km/h; on at most MaxImpacts ticks
\* it is at another speed (an impact), with the brake released or pressed to
\* 0.3. probe holds what the tick should have produced: quiet is the number
\* of ticks that are still suppressed, mark the distance of the last crash
\* event, events the ticks and kinds of the crash events so far.
\* ------------------------------------------------------------------------
MaxCrashTicks == 64

MaxImpacts == 2

Paces == {2, 10}

ImpactSpeeds == {119, 120, 160}

ImpactBrakes == {0, 30}

\* the crash event a tick should produce
ExpectedCrash(quiet, mark, d, drop, brake) ==
    IF quiet > 0 THEN "none"
    ELSE IF ~IsNone(mark) /\ Abs(d - Val(mark)) < cooldown_distance.crash THEN "none"
    ELSE IF drop > 80 /\ brake < 30 THEN "heavy"
    ELSE IF drop > 40 /\ brake < 30 THEN "light"
    ELSE "none"

QuietAfter(quiet, expected) ==
    IF expected = "heavy" THEN 60
    ELSE IF expected = "light" THEN 30
    ELSE Max2(0, quiet - 1)

CrashProbeAfter(p, d, speed, brake, expected) ==
    [op |-> "crash", pace |-> p.pace, ticks |-> p.ticks + 1, d |-> d, speed |-> speed,
     impacts |-> p.impacts + (IF speed = 200 THEN 0 ELSE 1),
     quiet |-> QuietAfter(p.quiet, expected),
     mark |-> IF expected = "none" THEN p.mark ELSE Some(d),
     expected |-> expected,
     events |-> IF expected = "none" THEN p.events
                ELSE Append(p.events, <<p.ticks + 1, expected>>)]

\* one tick from the probe state p at the given speed and brake
CrashTickFrom(p, speed, brake) ==
    /\ Commit(update_telemetry(World, CruiseSample(p.d + p.pace, speed, brake, 0, 0, 0)))
    /\ probe' = CrashProbeAfter(p, p.d + p.pace, speed, brake,
                                ExpectedCrash(p.quiet, p.mark, p.d + p.pace,
                                              p.speed - speed, brake))
    /\ now' = now + TickTime
    /\ UNCHANGED <<TTS_AVAILABLE, worker, ingest, game, hist, session>>

\* the first tick: the coach was constructed with last speed 0
CrashStart ==
    /\ probe.op = "none"
    /\ \E pace \in Paces :
          CrashTickFrom([pace |-> pace, ticks |-> 0, d |-> 0, speed |-> 0, impacts |-> 0,
                         quiet |-> 0, mark |-> NoneVal, events |-> <<>>],
                        200, 0)

\* a tick at cruising speed
CrashCruise ==
    /\ probe.op = "crash"
    /\ probe.ticks < MaxCrashTicks
    /\ CrashTickFrom(probe, 200, 0)

\* a tick at another speed
CrashImpact ==
    /\ probe.op = "crash"
    /\ probe.ticks < MaxCrashTicks
    /\ probe.impacts < MaxImpacts
    /\ \E speed \in ImpactSpeeds, brake \in ImpactBrakes : CrashTickFrom(probe, speed, brake)

NextCrash ==
    \/ CrashStart
    \/ CrashCruise
    \/ CrashImpact

SpecCrash == Init /\ [][NextCrash]_vars

\* ------------------------------------------------------------------------
\* Damage specification: car damage packets and telemetry ticks before the
\* start line. A tick moves the car by 250 m; a damage packet carries the
\* wear of the two front wings, the rear wing and the floor, which never
\* falls. probe holds what the check should have produced: stored is the
\* wear of the last check that the cooldown did not skip, mark the distance
\* at which the damage cooldown was last set.
\* ------------------------------------------------------------------------
MaxDamageChecks == 3

MaxDamageMoves == 3

FrontWear == {<<0, 0>>, <<11, 0>>, <<0, 21>>, <<51, 21>>}

RearWear == {0, 10, 21}

FloorWear == {0, 15, 31}

Wear(front, rear_wing, floor) ==
    [fl_wing |-> front[1], fr_wing |-> front[2], rear_wing |-> rear_wing, floor |-> floor]

NoWear == Wear(<<0, 0>>, 0, 0)

NotBelow(a, b) ==
    /\ a.fl_wing >= b.fl_wing
    /\ a.fr_wing >= b.fr_wing
    /\ a.rear_wing >= b.rear_wing
    /\ a.floor >= b.floor

DamageSkipped(mark, d) ==
    ~IsNone(mark) /\ Abs(d - Val(mark)) < cooldown_distance.damage

\* the message a check of the wear w should produce, "fired" when a test
\* fires without a message
ExpectedDamage(stored, w, skipped) ==
    IF skipped THEN "none"
    ELSE IF Max2(w.fl_wing, w.fr_wing) > Max2(stored.fl_wing, stored.fr_wing) + 10
    THEN IF Max2(w.fl_wing, w.fr_wing) > 50 THEN "damage_front_wing_heavy"
         ELSE IF Max2(w.fl_wing, w.fr_wing) > 20 THEN "damage_front_wing_light"
         ELSE "fired"
    ELSE IF w.rear_wing > stored.rear_wing + 10 THEN "damage_rear_wing"
    ELSE IF w.floor > stored.floor + 15 THEN "damage_floor"
    ELSE "none"

DamageProbeAfter(p, w, skipped, expected) ==
    [p EXCEPT !.checks = @ + 1,
              !.last = "check",
              !.prev_skipped = p.skipped,
              !.skipped = skipped,
              !.prev_wear = p.wear,
              !.wear = w,
              !.stored = IF skipped THEN @ ELSE w,
              !.mark = IF expected = "none" THEN @ ELSE Some(p.d),
              !.expected = expected]

damage_probe_init ==
    [op |-> "damage", checks |-> 0, moves |-> 0, d |-> 0, last |-> "none",
     prev_skipped |-> FALSE, skipped |-> FALSE, prev_wear |-> NoWear, wear |-> NoWear,
     stored |-> NoWear, mark |-> NoneVal, expected |-> "none"]

DamageProbe == IF probe.op = "none" THEN damage_probe_init ELSE probe

\* a telemetry tick 250 m further on; the first tick is a lap change (the
\* coach is constructed with lap number -1), which resets the cooldowns
DamageMove ==
    /\ probe.op \in {"none", "damage"}
    /\ DamageProbe.moves < MaxDamageMoves
    /\ Commit(update_telemetry(World, CruiseSample(DamageProbe.d + 250, 200, 0, 0, 0, 0)))
    /\ probe' = [DamageProbe EXCEPT !.moves = @ + 1, !.d = @ + 250, !.last = "move",
                                    !.mark = IF DamageProbe.moves = 0 THEN NoneVal ELSE @]
    /\ now' = now + TickTime
    /\ UNCHANGED <<TTS_AVAILABLE, worker, ingest, game, hist, session>>

\* a car damage packet
DamageCheck ==
    /\ probe.op \in {"none", "damage"}
    /\ DamageProbe.checks < MaxDamageChecks
    /\ \E front \in FrontWear, rear_wing \in RearWear, floor \in FloorWear :
          /\ NotBelow(Wear(front, rear_wing, floor), DamageProbe.wear)
          /\ Commit(update_damage(World, front[1], front[2], rear_wing, floor))
          /\ probe' = DamageProbeAfter(
                          DamageProbe, Wear(front, rear_wing, floor),
                          DamageSkipped(DamageProbe.mark, DamageProbe.d),
                          ExpectedDamage(DamageProbe.stored, Wear(front, rear_wing, floor),
                                         DamageSkipped(DamageProbe.mark, DamageProbe.d)))
    /\ now' = now + TickTime
    /\ UNCHANGED <<TTS_AVAILABLE, worker, ingest, game, hist, session>>

NextDamage ==
    \/ DamageMove
    \/ DamageCheck

SpecDamage == Init /\ [][NextDamage]_vars

\* ------------------------------------------------------------------------
\* Score specification: the session analytics of _finish_lap (lines
\* 2205-2209) over a sequence of closed laps with two corners. A lap is
\* clean (the reference values, 0.2 s faster in each corner) or ragged (1.5 s
\* lost in turn 1, late and slow everywhere, no values from turn 2). The lap
\* sigma and the driver statistics that _update_consistency_metrics and
\* _update_driver_profile compute from the lap are given with the lap. probe
\* holds the kinds of the laps closed so far.
\* ------------------------------------------------------------------------
MaxScoreLaps == 13

ScoreLapKinds == {"clean", "ragged"}

ScoreMetric(turn, delta, brake_point, entry_speed, apex_speed, exit_speed, throttle_point) ==
    [turn |-> turn, delta_vs_ref |-> delta, brake_point |-> brake_point,
     entry_speed |-> entry_speed, apex_speed |-> apex_speed, exit_speed |-> exit_speed,
     throttle_point |-> throttle_point]

ScoreReferenceMetrics ==
    <<ScoreMetric(1, NoneVal, Some(100), Some(200), 100, Some(150), Some(180)),
      ScoreMetric(2, NoneVal, Some(500), Some(250), 120, Some(170), Some(580))>>

LapMetrics(kind) ==
    IF kind = "clean"
    THEN <<ScoreMetric(1, Some(-200), Some(100), Some(200), 100, Some(150), Some(180)),
           ScoreMetric(2, Some(-200), Some(500), Some(250), 120, Some(170), Some(580))>>
    ELSE <<ScoreMetric(1, Some(1500), Some(160), Some(180), 55, Some(110), Some(270)),
           ScoreMetric(2, NoneVal, NoneVal, NoneVal, 120, NoneVal, NoneVal)>>

LapSigma(kind) == IF kind = "clean" THEN 0 ELSE 900

LapStats(kind) ==
    IF kind = "clean" THEN [throttle_jerk |-> 3, turn_in_rate |-> 1]
    ELSE [throttle_jerk |-> 20, turn_in_rate |-> 20]

\* the results of _update_consistency_metrics and _update_driver_profile
WithSessionStats(W, lap_sigma, stats) ==
    [W EXCEPT !.coach.consistency_metrics.lap_sigma = lap_sigma,
              !.coach.driver_profile.stats = Some(stats)]

\* lines 2131-2133: the corner metrics of the reference are stored
ScoreReference ==
    /\ probe.op = "none"
    /\ coach' = [coach EXCEPT !.reference_corner_metrics = ByTurn(ScoreReferenceMetrics)]
    /\ probe' = [op |-> "scores", kinds |-> <<>>]
    /\ UNCHANGED <<TTS_AVAILABLE, now, tts, shared_state, worker, calls, ingest, game,
                   hist, session>>

\* lines 2205-2209: a lap is closed
ScoreLap ==
    /\ probe.op = "scores"
    /\ Len(probe.kinds) < MaxScoreLaps
    /\ \E kind \in ScoreLapKinds :
          /\ Commit(_update_skill_scores(
                        WithSessionStats(_update_corner_mastery(World, LapMetrics(kind)),
                                         LapSigma(kind), LapStats(kind)),
                        LapMetrics(kind)))
          /\ probe' = [probe EXCEPT !.kinds = Append(@, kind)]
    /\ UNCHANGED <<TTS_AVAILABLE, now, worker, ingest, game, hist, session>>

NextScores ==
    \/ ScoreReference
    \/ ScoreLap

SpecScores == Init /\ [][NextScores]_vars

\* ------------------------------------------------------------------------
\* Live-bin specification: a reference lap is set, then update_telemetry's
\* call of _update_live_bin_deltas is applied tick after tick to distances
\* and lap times drawn from bounded sets; the car may stand, jump ahead or
\* move back between two ticks
\* ------------------------------------------------------------------------
MaxBinTicks == 4

\* the distances of the car: before the line, and along the lap
BinDistances == {-10, 0, 100, 200, 300}

\* the lap time (ms) that passes between two ticks
BinSteps == {1000, 3000}

\* the synthetic lap becomes the reference, as at a promotion
BinReference ==
    /\ probe.op = "none"
    /\ \E spacing \in Spacings :
          /\ coach' = WithReferenceBins(NewReference(coach, 1, 4500,
                                                     BrakingLap(spacing, 0)))
          /\ probe' = [op |-> "bins", spacing |-> spacing, ticks |-> 0]
    /\ UNCHANGED <<TTS_AVAILABLE, now, tts, shared_state, worker, calls,
                   ingest, game, hist, session>>

\* update_telemetry, lines 2480-2487 and 2544: the distance and the lap time
\* of the sample are stored and the live bins updated
BinTick ==
    /\ probe.op = "bins"
    /\ probe.ticks < MaxBinTicks
    /\ \E lap_distance \in BinDistances, step \in BinSteps :
          coach' = _update_live_bin_deltas(
                       [World EXCEPT
                          !.coach.last_lap_distance = coach.current_lap_distance,
                          !.coach.current_lap_distance = lap_distance,
                          !.coach.current_lap_time = @ + step]).coach
    /\ probe' = [probe EXCEPT !.ticks = @ + 1]
    /\ UNCHANGED <<TTS_AVAILABLE, now, tts, shared_state, worker, calls,
                   ingest, game, hist, session>>

NextBins ==
    \/ BinReference
    \/ BinTick

SpecBins == Init /\ [][NextBins]_vars

\* ------------------------------------------------------------------------
\* C24: after a promotion the three reference sector times are those of the
\* promoted lap: the first and second split as the game reported them in
\* that lap, and the lap time less the two splits; none is left over from
\* the reference before
\* ------------------------------------------------------------------------
Promotion == IngestStep /\ coach'.reference_lap_num # coach.reference_lap_num

\* the splits the game reported in the lap that is being closed
ReportedS1 == (Styles[game.style].lap_time * 170) \div LapLength

ReportedS2 == (Styles[game.style].lap_time * 150) \div LapLength

ClosedInvalid ==
    /\ IngestStep
    /\ Len(shared_state'.lap_times) > Len(shared_state.lap_times)
    /\ ~shared_state'.lap_times[Len(shared_state'.lap_times)].valid

C25_InvalidLapKeepsBestSectors ==
    [][ClosedInvalid => coach'.best_sector_times = coach.best_sector_times]_vars

\* ------------------------------------------------------------------------
\* C26: a reported gain of the virtual optimal lap is never negative: the
\* sum of the best sector times, and the sum of the best segment times, is
\* at most the reference lap time whenever the gain is reported
\* ------------------------------------------------------------------------
C26_GainNeverNegative ==
    /\ ~IsNone(coach.optimal_lap.gain_vs_pb_sectors)
          => Val(coach.optimal_lap.gain_vs_pb_sectors) >= 0
    /\ ~IsNone(coach.optimal_lap.gain_vs_pb_bins)
          => Val(coach.optimal_lap.gain_vs_pb_bins) >= 0

\* ------------------------------------------------------------------------
\* C27: closing a lap as invalid leaves the reference lap and its time, the
\* corner list, the reference bin profile and corner metrics, the stored
\* laps, the valid-lap-time history, the sector history, the per-corner
\* history and mastery and the best segment times as they were; the last-lap
\* display fields are cleared and the lap is entered as invalid in the lap
\* list
\* ------------------------------------------------------------------------
KeptOverInvalidLap(c, ss) ==
    <<c.reference, c.reference_lap_num, c.reference_lap_time, c.track_analyzer,
      c.reference_sector_times, c.reference_bin_times, c.reference_corner_metrics,
      c.completed_laps, c.valid_lap_times, c.sector_history, c.corner_history,
      c.corner_mastery, c.best_bin_segment_times, c.optimal_lap, ss.fastest_lap>>

SectorMessages == {"sector_purple", "sector_green", "sector_yellow", "sector_time"}

SectorCalls(cs) == Cardinality({i \in 1..Len(cs) : cs[i].message \in SectorMessages})

\* the first point of a timed lap whose sample carries the split of sector n
FirstSplitPoint(n) == IF n = 1 THEN 4 ELSE 7

\* the flag of sector n is set from the first sample with its split to the
\* end of the lap
FlagsFollowSplits ==
    \A n \in 1..2 :
        coach.sector_announced[n] = (game.lap > 0 /\ game.idx >= FirstSplitPoint(n))

NewlyAnnounced ==
    {n \in 1..2 : ~coach.sector_announced[n] /\ coach'.sector_announced[n]}

AnnouncedOnce ==
    IngestStep =>
        /\ SectorCalls(calls') <= Cardinality(NewlyAnnounced)
        /\ game'.lap # game.lap => \A n \in 1..2 : ~coach'.sector_announced[n]
        /\ coach'.sector_announced[2] => coach'.sector_announced[1]
        /\ ~coach.lap_is_invalid /\ game'.lap = game.lap
              => SectorCalls(calls') = Cardinality(NewlyAnnounced)

ExpectedColour(t, best, ref) ==
    IF IsNone(best) \/ t < Val(best) THEN "purple"
    ELSE IF ~IsNone(ref) /\ t < Val(ref) THEN "green"
    ELSE IF ~IsNone(ref) THEN "yellow"
    ELSE "None"

\* the sector was classified: the splits of a lap flagged invalid are not
SectorWasClassified == probe.sector_num = 3 \/ ~probe.lap_is_invalid

FilledBins(c) == {b \in DOMAIN c.current_lap_bin_times : ~IsNone(c.current_lap_bin_times[b])}

\* the bin of a distance on a track: round(ratio * (N - 1)), counted from 1
BinOf(lap_distance, track_length) ==
    RoundHalfEven(Max2(0, Min2(track_length, lap_distance)) * (HEATMAP_BIN_COUNT - 1),
                  track_length) + 1

LiveBinsCovered ==
    probe.op = "bins" =>
        /\ DOMAIN coach.current_lap_bin_times = Bins
        /\ DOMAIN coach.current_segment_deltas = Bins
        /\ Len(coach.reference_bin_times) = HEATMAP_BIN_COUNT
        /\ IF IsNone(coach.last_live_bin_index)
           THEN FilledBins(coach) = {}
           ELSE \E lo \in Bins : FilledBins(coach) = lo..Val(coach.last_live_bin_index)
        /\ \A b \in Bins :
              ~IsNone(coach.current_segment_deltas[b])
                 => /\ b \in FilledBins(coach)
                    /\ coach.current_segment_deltas[b]
                         = Some(Val(coach.current_lap_bin_times[b])
                                - Val(coach.reference_bin_times[b]))

\* the bins after a tick that maps to bin idx at lap time t, when the
\* highest bin before was prev
BinsAfter(c, idx, t, prev) ==
    [b \in Bins |->
        IF b = idx THEN Some(t)
        ELSE IF b > prev /\ b < idx
        THEN Some(Val(c.current_lap_bin_times[prev])
                  + ((b - prev) * (t - Val(c.current_lap_bin_times[prev])))
                    \div (idx - prev))
        ELSE c.current_lap_bin_times[b]]

LiveBinStep(idx) ==
    IF coach'.current_lap_distance < 0
    THEN /\ coach'.current_lap_bin_times = coach.current_lap_bin_times
         /\ coach'.last_live_bin_index = coach.last_live_bin_index
    ELSE IF IsNone(coach.last_live_bin_index)
    THEN /\ coach'.last_live_bin_index = Some(idx)
         /\ FilledBins(coach') = {idx}
    ELSE IF idx < Val(coach.last_live_bin_index)
    THEN /\ coach'.current_lap_bin_times = coach.current_lap_bin_times
         /\ coach'.current_segment_deltas = coach.current_segment_deltas
         /\ coach'.last_live_bin_index = coach.last_live_bin_index
    ELSE /\ coach'.last_live_bin_index = Some(idx)
         /\ coach'.current_lap_bin_times
               = BinsAfter(coach, idx, coach'.current_lap_time,
                           Val(coach.last_live_bin_index))

C30_LiveBinCoverage ==
    /\ [](LiveBinsCovered)
    /\ [][probe.op = "bins" /\ probe'.ticks # probe.ticks
            => LiveBinStep(BinOf(coach'.current_lap_distance,
                                 Val(coach.track_analyzer).track_length))]_vars

\* the car has jumped from the first bin to the last: the bins between are
\* filled, and a later tick further back has changed nothing
C30_Witness ==
    /\ probe.op = "bins"
    /\ probe.ticks >= 3
    /\ coach.last_live_bin_index = Some(HEATMAP_BIN_COUNT)
    /\ FilledBins(coach) = Bins
    /\ coach.current_lap_distance = 100
    /\ coach.current_lap_bin_times[1] = Some(1000)
    /\ Val(coach.current_lap_bin_times[HEATMAP_BIN_COUNT]) - 1000 \in BinSteps

\* ------------------------------------------------------------------------
\* C31: the corner list of a reference lap is sorted by non-decreasing start
\* distance and its turn numbers are 1..n in that order, without gap or
\* duplicate
\* ------------------------------------------------------------------------
SortedAndNumbered(corners) ==
    /\ \A i \in 1..(Len(corners) - 1) : corners[i].start_dist <= corners[i + 1].start_dist
    /\ \A i \in 1..Len(corners) : corners[i].turn_number = i

SameStretch(zone, corner) ==
    /\ corner.start_dist <= zone.end_dist
    /\ corner.end_dist >= zone.start_dist

C32_FallbackIsLooser ==
    probe.op = "corners" =>
        /\ \A i \in 1..Len(probe.found.braking_zones) :
              \E j \in 1..Len(probe.found.fallback_corners) :
                 SameStretch(probe.found.braking_zones[i], probe.found.fallback_corners[j])
        /\ Len(probe.found.corners) < 3
              => Len(probe.found.fallback_corners) <= Len(probe.found.corners)

\* ------------------------------------------------------------------------
\* C33: in a lap at most MAX_CORNER_CALLOUTS_PER_LAP corner feedback
\* messages are produced, no corner is given feedback twice, and the
\* tracking state of a corner only moves forward (not started, started,
\* completed) until the lap number changes
\* ------------------------------------------------------------------------
NoDuplicates(sq) == \A i, j \in 1..Len(sq) : sq[i] = sq[j] => i = j

TrackingMovesForward ==
    probe.op = "course" /\ probe'.lap = probe.lap =>
        \A turn \in DOMAIN coach.current_lap_corner_data :
            /\ turn \in DOMAIN coach'.current_lap_corner_data
            /\ coach.current_lap_corner_data[turn].started
                  => coach'.current_lap_corner_data[turn].started
            /\ coach.current_lap_corner_data[turn].completed
                  => coach'.current_lap_corner_data[turn].completed
            /\ coach'.current_lap_corner_data[turn].completed
                  => coach'.current_lap_corner_data[turn].started

CalloutsCapped ==
    probe.op = "course" =>
        /\ Len(probe.fed) <= MAX_CORNER_CALLOUTS_PER_LAP
        /\ NoDuplicates(probe.fed)
        /\ CornerCalls(calls) <= 1

C33_CornerCalloutCaps == [](CalloutsCapped) /\ [][TrackingMovesForward]_vars

\* four corners were given feedback and a fifth was completed without
\* feedback
C33_Witness ==
    /\ probe.op = "course"
    /\ Len(probe.fed) = MAX_CORNER_CALLOUTS_PER_LAP
    /\ Cardinality({turn \in DOMAIN coach.current_lap_corner_data :
                        coach.current_lap_corner_data[turn].completed})
          > MAX_CORNER_CALLOUTS_PER_LAP

\* ------------------------------------------------------------------------
\* C34: after a lap-number change the current_delta of the state snapshot is
\* 0 until the car has passed distance 100 of the new lap; it never shows
\* the delta computed at the end of the previous lap
\* ------------------------------------------------------------------------
C34_DeltaZeroAtLapStart ==
    probe.op = "course" /\ probe.lap > 1 /\ ~probe.back /\ probe.d < 100
        => shared_state.current_delta = 0

\* ------------------------------------------------------------------------
\* C35: the penalty and warning detectors are edge-triggered: a tick asks
\* for a penalty message exactly when the penalties counter is above its
\* value of the tick before, for a corner-cutting warning exactly when the
\* corner-warning counter is, and for a general warning exactly when the
\* corner-warning counter is not and the total-warning counter is; counters
\* that stay or fall ask for nothing, and no tick asks for two warnings
\* ------------------------------------------------------------------------
CallsOf(cs, message) == Cardinality({i \in 1..Len(cs) : cs[i].message = message})

Truth(b) == IF b THEN 1 ELSE 0

C35_EdgeTriggeredPenalties ==
    probe.op = "penalties" =>
        /\ CallsOf(calls, "penalty_time")
              = Truth(probe.seen.penalties > probe.before.penalties)
        /\ CallsOf(calls, "penalty_corner_cutting")
              = Truth(probe.seen.corner_warnings > probe.before.corner_warnings)
        /\ CallsOf(calls, "penalty_warning")
              = Truth(/\ probe.seen.corner_warnings <= probe.before.corner_warnings
                      /\ probe.seen.total_warnings > probe.before.total_warnings)
        /\ CallsOf(calls, "penalty_corner_cutting") + CallsOf(calls, "penalty_warning") <= 1

\* both warning counters and the penalties counter rise again after a fall:
\* one warning and one penalty message
C35_Witness ==
    /\ probe.op = "penalties"
    /\ probe.ticks = MaxPenaltyTicks
    /\ probe.before = [total_warnings |-> 1, corner_warnings |-> 1, penalties |-> 1]
    /\ probe.seen = [total_warnings |-> 2, corner_warnings |-> 2, penalties |-> 2]
    /\ coach.last_penalties = 2
    /\ CallsOf(calls, "penalty_corner_cutting") = 1
    /\ CallsOf(calls, "penalty_time") = 1

\* ------------------------------------------------------------------------
\* C36: outside the cooldowns a drop of speed between two ticks of more than
\* 80 with the brake below 0.3 produces a heavy crash event (critical,
\* forced) and suppresses the detector for the next 60 ticks; a drop of more
\* than 40 and at most 80 with the brake below 0.3 produces a light event
\* and suppresses it for 30 ticks; with the brake at 0.3 or more, or a drop
\* of at most 40, or while the tick cooldown or the distance cooldown of
\* crashes runs, no crash event is produced
\* ------------------------------------------------------------------------
HeavyCalls(cs) ==
    Cardinality({i \in 1..Len(cs) : /\ cs[i].message = "crash_heavy"
                                    /\ cs[i].force
                                    /\ cs[i].priority = PRIORITY_CRITICAL})

C36_CrashDetector ==
    probe.op = "crash" =>
        /\ CallsOf(calls, "crash_heavy") = Truth(probe.expected = "heavy")
        /\ HeavyCalls(calls) = CallsOf(calls, "crash_heavy")
        /\ CallsOf(calls, "crash_light") = Truth(probe.expected = "light")

\* a heavy event on the 61st tick after a heavy event
C36_Witness ==
    /\ probe.op = "crash"
    /\ Len(probe.events) = 2
    /\ probe.events[1][2] = "heavy"
    /\ probe.events[2] = <<probe.events[1][1] + 61, "heavy">>
    /\ probe.ticks = probe.events[2][1]
    /\ HeavyCalls(calls) = 1

\* ------------------------------------------------------------------------
\* C37: a damage check produces at most one message; the front wings (the
\* greater of left and right, a rise of more than 10) are tested before the
\* rear wing (a rise of more than 10) and the rear wing before the floor (a
\* rise of more than 15), and every rise is measured against the wear
\* stored at the last check that the damage cooldown did not skip
\* ------------------------------------------------------------------------
DamageMessages ==
    {"damage_front_wing_heavy", "damage_front_wing_light", "damage_rear_wing",
     "damage_floor"}

C37_DamageDetector ==
    probe.op = "damage" /\ probe.last = "check" =>
        /\ \A message \in DamageMessages :
              CallsOf(calls, message) = Truth(probe.expected = message)
        /\ Cardinality({i \in 1..Len(calls) : calls[i].message \in DamageMessages}) <= 1

\* a check after a skipped check with the same wear produces the message
\* that the skipped check did not
C37_Witness ==
    /\ probe.op = "damage"
    /\ probe.last = "check"
    /\ probe.prev_skipped
    /\ ~probe.skipped
    /\ probe.prev_wear = probe.wear
    /\ probe.expected \in DamageMessages
    /\ CallsOf(calls, probe.expected) = 1

\* ------------------------------------------------------------------------
\* C38: the dominant cause of a corner is the first rule that fires in the
\* order brake earlier, exit speed low, over-slowed apex, carry entry speed,
\* throttle late; it is clean when no rule fires and none when the corner has
\* no reference metric; a later rule never overrides an earlier one
\* ------------------------------------------------------------------------
ReasonOrder ==
    <<"brake_earlier", "focus_exit", "overslow_apex", "entry_speed", "throttle_late">>

\* whether the rule named reason fires on the differences diffs
Fires(reason, diffs) ==
    IF reason = "brake_earlier"
    THEN /\ ~IsNone(diffs.brake) /\ Val(diffs.brake) > BRAKE_POINT_DIFF_M
         /\ (IsNone(diffs.delta) \/ Val(diffs.delta) > 0)
    ELSE IF reason = "focus_exit"
    THEN ~IsNone(diffs.exit) /\ Val(diffs.exit) < -EXIT_SPEED_DIFF_KPH
    ELSE IF reason = "overslow_apex"
    THEN /\ diffs.apex < -APEX_SPEED_DIFF_KPH
         /\ ~IsNone(diffs.entry) /\ Val(diffs.entry) > -2
    ELSE IF reason = "entry_speed"
    THEN ~IsNone(diffs.entry) /\ Val(diffs.entry) < -ENTRY_SPEED_DIFF_KPH
    ELSE /\ ~IsNone(diffs.throttle) /\ Val(diffs.throttle) > THROTTLE_POINT_DIFF_M

C38_FirstRuleWins ==
    probe.op = "reason" =>
        IF ~probe.referenced THEN probe.reason = "none"
        ELSE /\ \A i \in 1..Len(ReasonOrder) :
                   (/\ Fires(ReasonOrder[i], probe.diffs)
                    /\ \A j \in 1..(i - 1) : ~Fires(ReasonOrder[j], probe.diffs))
                      => probe.reason = ReasonOrder[i]
             /\ (\A i \in 1..Len(ReasonOrder) : ~Fires(ReasonOrder[i], probe.diffs))
                   => probe.reason = "clean"

\* the brake rule and every later rule that can fire with it fire together
C38_Witness ==
    /\ probe.op = "reason"
    /\ probe.referenced
    /\ \A i \in {1, 2, 4, 5} : Fires(ReasonOrder[i], probe.diffs)
    /\ probe.reason = "brake_earlier"

\* ------------------------------------------------------------------------
\* C39: after any sequence of closed laps every mastery score of a corner and
\* each of the five skill scores lies in [0, 100], the pace and consistency
\* components of the mastery are clamped to [0, 100] before they are blended,
\* and the rolling history of every corner holds at most the last 12 laps
\* ------------------------------------------------------------------------
Points == 0..10000

MasteryBounded(entry) ==
    /\ pace_score(entry.avg_delta) \in Points
    /\ consistency_score(entry.consistency_sigma) \in Points
    /\ entry.score = (65 * pace_score(entry.avg_delta)
                      + 35 * consistency_score(entry.consistency_sigma)) \div 100
    /\ entry.score \in Points

\* the deltas of turn 1 over the last CORNER_HISTORY_WINDOW laps
LastDeltas(kinds) ==
    [i \in 1..Len(LastN(kinds, CORNER_HISTORY_WINDOW)) |->
        LapMetrics(LastN(kinds, CORNER_HISTORY_WINDOW)[i])[1].delta_vs_ref]

C39_ScoreBounds ==
    /\ \A i \in 1..Len(coach.corner_mastery) : MasteryBounded(coach.corner_mastery[i])
    /\ \A name \in DOMAIN coach.skill_scores : coach.skill_scores[name] \in Points
    /\ \A turn \in DOMAIN coach.corner_history :
          \A key \in DOMAIN coach.corner_history[turn] :
             Len(coach.corner_history[turn][key]) <= CORNER_HISTORY_WINDOW
    /\ probe.op = "scores" /\ Len(probe.kinds) > 0
          => coach.corner_history[1].delta = LastDeltas(probe.kinds)

\* thirteen laps were closed, the history of turn 1 has lost the first of
\* them, and the pace component and a skill score are held at 0 by the clamp
C39_Witness ==
    /\ probe.op = "scores"
    /\ Len(probe.kinds) = CORNER_HISTORY_WINDOW + 1
    /\ probe.kinds[1] = "clean"
    /\ Len(coach.corner_history[1].delta) = CORNER_HISTORY_WINDOW
    /\ \E i \in 1..Len(coach.corner_mastery) :
          /\ 10000 - Max2(0, coach.corner_mastery[i].avg_delta) * 26 < 0
          /\ pace_score(coach.corner_mastery[i].avg_delta) = 0
    /\ coach.skill_scores.braking_precision = 0

====
